---- MODULE Spec2Model ----
(***************************************************************************)
(* A model of the Advent-of-Code-2023 solvers (LukasBoersma).  Every day   *)
(* is an independent program; each gets its own variables (prefix dNN_ or  *)
(* main_), its own initial condition and its own specification SpecNN.     *)
(* Under SpecNN the variables of the other days rest at an idle value.     *)
(***************************************************************************)
EXTENDS Integers, Sequences, FiniteSets, TLC

VARIABLES
    \* ---- day 25 (src/src/day25.rs) ----
    d25_graph,     \* the parsed input graph, shared read-only by the trials
    d25_iter,      \* next item of the range (0..1000) behind par_bridge
    d25_worker,    \* per pool thread: pc, the trial's merged_graph, found item
    d25_found,     \* find_any's shared "found" flag
    d25_trials,    \* history: the (cuts, product) pair of every finished trial
    d25_out,       \* outcome of part1: running, returned v, or panicked
    \* ---- day 2 (src/src/day02.rs) ----
    d02_input,     \* the games of the input text
    d02_out,       \* outcome of part1 and part2: running, returned, panicked
    \* ---- day 5 (src/src/day05.rs) ----
    d05_input,     \* the seed line's values and the maps of the input text
    d05_out,       \* outcome of part1 and part2: running, returned, panicked
    \* ---- the executable (src/src/main.rs, utils/solution_import.rs) ----
    main_solutions,  \* the registered solutions, in the order list_files gives
    main_args,       \* the command line arguments after the program name
    main_pc,         \* "start", "selected", "part1", "part2", "done", "panicked"
    main_solution,   \* the solution main hands to run_solution_day
    main_ran,        \* the solution functions called so far, in order
    \* ---- day 20 (src/src/day20.rs), part1 ----
    d20_circuit,   \* name -> module (type, inputs, input_values, outputs)
    d20_signals,   \* the VecDeque of signals (from, to, value) not yet processed
    d20_i,         \* number of passes of `for _ in 0..1000` started
    d20_low,       \* total_low_signals
    d20_high,      \* total_high_signals
    d20_sent,      \* history: number of signals pushed so far
    d20_taken,     \* history: number of signals popped so far
    d20_out,       \* the value part1 returns, None while it runs
    \* ---- day 1 (src/src/day01.rs) ----
    d01_input,     \* the input text, a sequence of characters
    d01_out,       \* outcome of a call of part1 and of a call of part2
    \* ---- day 6 (src/src/day06.rs) ----
    d06_input,     \* the numbers of the two lines, as written in the text
    d06_call,      \* the function called: "part1" or "part2"
    d06_pc,        \* "parse", "next", "loop", "done"
    d06_rounds,    \* the races (time, distance) not yet evaluated
    d06_race,      \* the race ways_to_win is working on
    d06_t,         \* ways_to_win: t
    d06_wins,      \* ways_to_win: wins
    d06_product,   \* the product of the counts so far
    d06_out,       \* outcome of the call
    \* ---- day 14 (src/src/day14.rs) ----
    d14_input,     \* the text handed to part1 or part2
    d14_call,      \* the function called: "part1" or "part2"
    d14_pc,        \* "start", "loop", "done"
    d14_map,       \* part2: map
    d14_seen_maps, \* part2: seen_maps, a function from maps to indices
    d14_i,         \* part2: i
    d14_has_skipped, \* part2: has_skipped
    d14_out,       \* outcome of the call
    \* ---- day 17 (src/src/day17.rs) ----
    d17_input,     \* the text handed to part1 or part2
    d17_call,      \* the function called: "part1" or "part2"
    d17_pc,        \* "start", "loop", "found", "done"
    d17_map,       \* solve: map
    d17_open,      \* find_path: open
    d17_closed,    \* find_path: closed
    d17_visited,   \* find_path: visited
    d17_path,      \* the path find_path returned
    d17_out,       \* outcome of the call
    \* ---- day 19 (src/src/day19.rs) ----
    d19_input,     \* the workflow lines and the part lines of the text
    d19_out,       \* outcome of part1 and of part2
    \* ---- day 9 (src/src/day09.rs) ----
    d09_input,     \* the text handed to part1 and part2
    d09_out,       \* outcome of part1 and of part2
    \* ---- day 11 (src/src/day11.rs) ----
    d11_input,     \* the text handed to solve
    d11_expansion, \* the expansion_size handed to solve
    d11_map,       \* solve's local map: the galaxy positions
    d11_size,      \* solve's local size
    d11_pc,        \* where solve stands
    d11_i,         \* the loop variable row_y / col_x
    d11_out,       \* what solve returned
    \* ---- day 20, part 2 (src/src/day20.rs) ----
    p20_circuit,   \* part2's local circuit
    p20_rx,        \* part2's local conjunction_to_rx
    p20_second,    \* part2's local second_level_conjunctions
    p20_signals,   \* part2's local queue of signals
    p20_i,         \* the loop variable i: the button presses so far
    p20_periods,   \* part2's local periods_for_second_level
    p20_first,     \* history: the press of each module's first high pulse
    p20_pc,        \* where part2 stands
    p20_out,       \* what part2 returned
    \* ---- day 5, intervals against single seeds (src/src/day05.rs) ----
    r05_seeds,     \* the seed intervals, each <<start, length>>
    r05_maps,      \* the chain of maps, each rule <<destination, source, length>>
    r05_out,       \* get_min_location on the intervals and on the single seeds
    \* ---- day 12 (src/src/day12.rs) ----
    d12_row,       \* solve_row's row of springs
    d12_constraints, \* solve_row's group sizes
    d12_ways,      \* the fold's ways_to_solve: max_pos -> count
    d12_group,     \* the number of groups folded in
    d12_out,       \* what solve_row returned
    \* ---- day 18 (src/src/day18.rs) ----
    d18_plan,      \* the dig plan: steps <<letter, distance>>
    d18_k,         \* build_edges: the steps applied so far
    d18_pos,       \* build_edges' local pos
    d18_map,       \* build_edges' local map, then area's parameter
    d18_y,         \* area's local y
    d18_max_y,     \* area's local max_y
    d18_area,      \* area's local area
    d18_skips,     \* history: the number of rows each pass of area's loop took
    d18_pc,        \* where part1 stands
    d18_out        \* what area returned

vars25 == <<d25_graph, d25_iter, d25_worker, d25_found, d25_trials, d25_out>>

vars02 == <<d02_input, d02_out>>

vars05 == <<d05_input, d05_out>>

varsMain == <<main_solutions, main_args, main_pc, main_solution, main_ran>>

vars20 == <<d20_circuit, d20_signals, d20_i, d20_low, d20_high, d20_sent,
            d20_taken, d20_out>>

vars01 == <<d01_input, d01_out>>

vars06 == <<d06_input, d06_call, d06_pc, d06_rounds, d06_race, d06_t, d06_wins,
            d06_product, d06_out>>

vars14 == <<d14_input, d14_call, d14_pc, d14_map, d14_seen_maps, d14_i,
            d14_has_skipped, d14_out>>

vars17 == <<d17_input, d17_call, d17_pc, d17_map, d17_open, d17_closed,
            d17_visited, d17_path, d17_out>>

vars19 == <<d19_input, d19_out>>

vars09 == <<d09_input, d09_out>>

vars11 == <<d11_input, d11_expansion, d11_map, d11_size, d11_pc, d11_i, d11_out>>

vars20p2 == <<p20_circuit, p20_rx, p20_second, p20_signals, p20_i, p20_periods, p20_first, p20_pc, p20_out>>

vars05r == <<r05_seeds, r05_maps, r05_out>>

vars12 == <<d12_row, d12_constraints, d12_ways, d12_group, d12_out>>

vars18 == <<d18_plan, d18_k, d18_pos, d18_map, d18_y, d18_max_y, d18_area, d18_skips, d18_pc, d18_out>>

vars == <<vars25, vars02, vars05, varsMain, vars20, vars01, vars06, vars14, vars17, vars19, vars09, vars11, vars20p2, vars05r, vars12, vars18>>

\* The programs are independent: while one runs, the others do not exist.
Idle25 ==
    /\ d25_graph = <<>>
    /\ d25_iter = 0
    /\ d25_worker = <<>>
    /\ d25_found = FALSE
    /\ d25_trials = {}
    /\ d25_out = <<>>

\* the outcome record of a day that is not running
IdleOut == [part1 |-> [st |-> "idle", val |-> 0], part2 |-> [st |-> "idle", val |-> 0]]

Idle02 == d02_input = <<>> /\ d02_out = IdleOut

Idle05 == d05_input = <<>> /\ d05_out = IdleOut

IdleMain ==
    /\ main_solutions = <<>>
    /\ main_args = <<>>
    /\ main_pc = "idle"
    /\ main_solution = <<>>
    /\ main_ran = <<>>

Idle20 ==
    /\ d20_circuit = <<>>
    /\ d20_signals = <<>>
    /\ d20_i = 0
    /\ d20_low = 0
    /\ d20_high = 0
    /\ d20_sent = 0
    /\ d20_taken = 0
    /\ d20_out = <<"idle">>

Idle01 == d01_input = <<>> /\ d01_out = IdleOut

Idle06 ==
    /\ d06_input = <<>>
    /\ d06_call = "idle"
    /\ d06_pc = "idle"
    /\ d06_rounds = <<>>
    /\ d06_race = <<>>
    /\ d06_t = 0
    /\ d06_wins = 0
    /\ d06_product = 0
    /\ d06_out = [st |-> "idle", val |-> 0]

Idle14 ==
    /\ d14_input = <<>>
    /\ d14_call = "idle"
    /\ d14_pc = "idle"
    /\ d14_map = <<>>
    /\ d14_seen_maps = <<>>
    /\ d14_i = 0
    /\ d14_has_skipped = FALSE
    /\ d14_out = [st |-> "idle", val |-> 0]

Idle17 ==
    /\ d17_input = <<>>
    /\ d17_call = "idle"
    /\ d17_pc = "idle"
    /\ d17_map = <<>>
    /\ d17_open = <<>>
    /\ d17_closed = <<>>
    /\ d17_visited = {}
    /\ d17_path = <<>>
    /\ d17_out = [st |-> "idle", val |-> 0]

Idle19 ==
    /\ d19_input = <<>>
    /\ d19_out = IdleOut

Idle09 ==
    /\ d09_input = <<>>
    /\ d09_out = IdleOut

Idle11 ==
    /\ d11_input = <<>>
    /\ d11_expansion = 0
    /\ d11_map = <<>>
    /\ d11_size = <<0, 0>>
    /\ d11_pc = "idle"
    /\ d11_i = 0
    /\ d11_out = [st |-> "idle", val |-> 0]

Idle20p2 ==
    /\ p20_circuit = <<>>
    /\ p20_rx = ""
    /\ p20_second = {}
    /\ p20_signals = <<>>
    /\ p20_i = 0
    /\ p20_periods = <<>>
    /\ p20_first = <<>>
    /\ p20_pc = "idle"
    /\ p20_out = [st |-> "idle", val |-> 0]

Idle05r ==
    /\ r05_seeds = <<>>
    /\ r05_maps = <<>>
    /\ r05_out = [ranges |-> [st |-> "idle", val |-> 0], seeds |-> [st |-> "idle", val |-> 0]]

Idle12 ==
    /\ d12_row = <<>>
    /\ d12_constraints = <<>>
    /\ d12_ways = <<>>
    /\ d12_group = 0
    /\ d12_out = [st |-> "idle", val |-> 0]

Idle18 ==
    /\ d18_plan = <<>>
    /\ d18_k = 0
    /\ d18_pos = <<0, 0>>
    /\ d18_map = <<>>
    /\ d18_y = 0
    /\ d18_max_y = 0
    /\ d18_area = 0
    /\ d18_skips = <<>>
    /\ d18_pc = "idle"
    /\ d18_out = [st |-> "idle", val |-> 0]

\* Under the specification of the days in `days` all other days are idle.
IdleAllBut(days) ==
    /\ IF 25 \in days THEN TRUE ELSE Idle25
    /\ IF 2 \in days THEN TRUE ELSE Idle02
    /\ IF 5 \in days THEN TRUE ELSE Idle05
    /\ IF 0 \in days THEN TRUE ELSE IdleMain
    /\ IF 20 \in days THEN TRUE ELSE Idle20
    /\ IF 1 \in days THEN TRUE ELSE Idle01
    /\ IF 6 \in days THEN TRUE ELSE Idle06
    /\ IF 14 \in days THEN TRUE ELSE Idle14
    /\ IF 17 \in days THEN TRUE ELSE Idle17
    /\ IF 19 \in days THEN TRUE ELSE Idle19
    /\ IF 9 \in days THEN TRUE ELSE Idle09
    /\ IF 11 \in days THEN TRUE ELSE Idle11
    /\ IF 202 \in days THEN TRUE ELSE Idle20p2
    /\ IF 52 \in days THEN TRUE ELSE Idle05r
    /\ IF 12 \in days THEN TRUE ELSE Idle12
    /\ IF 18 \in days THEN TRUE ELSE Idle18

UnchangedAllBut(days) ==
    /\ IF 25 \in days THEN TRUE ELSE UNCHANGED vars25
    /\ IF 2 \in days THEN TRUE ELSE UNCHANGED vars02
    /\ IF 5 \in days THEN TRUE ELSE UNCHANGED vars05
    /\ IF 0 \in days THEN TRUE ELSE UNCHANGED varsMain
    /\ IF 20 \in days THEN TRUE ELSE UNCHANGED vars20
    /\ IF 1 \in days THEN TRUE ELSE UNCHANGED vars01
    /\ IF 6 \in days THEN TRUE ELSE UNCHANGED vars06
    /\ IF 14 \in days THEN TRUE ELSE UNCHANGED vars14
    /\ IF 17 \in days THEN TRUE ELSE UNCHANGED vars17
    /\ IF 19 \in days THEN TRUE ELSE UNCHANGED vars19
    /\ IF 9 \in days THEN TRUE ELSE UNCHANGED vars09
    /\ IF 11 \in days THEN TRUE ELSE UNCHANGED vars11
    /\ IF 202 \in days THEN TRUE ELSE UNCHANGED vars20p2
    /\ IF 52 \in days THEN TRUE ELSE UNCHANGED vars05r
    /\ IF 12 \in days THEN TRUE ELSE UNCHANGED vars12
    /\ IF 18 \in days THEN TRUE ELSE UNCHANGED vars18

\* run_solution_day calls part1 and then part2; each part is pending, has
\* returned a value, or has panicked (which ends the process).
Pending == [st |-> "pending", val |-> 0]

Ret(v) == [st |-> "returned", val |-> v]

Pan == [st |-> "panicked", val |-> 0]

NotStarted == [part1 |-> Pending, part2 |-> Pending]

(***************************************************************************)
(* Generic helpers (Rust std / itertools behaviour).                       *)
(***************************************************************************)
\* Option<T>: None is the empty sequence, Some(x) the one-element sequence
None == <<>>

Some(x) == <<x>>

Range(s) == {s[k] : k \in DOMAIN s}

Contains(s, x) == \E k \in DOMAIN s : s[k] = x

\* itertools::unique(): keeps the first occurrence of every element
RECURSIVE UniqueFrom(_, _)
UniqueFrom(s, acc) ==
    IF s = <<>> THEN acc
    ELSE UniqueFrom(Tail(s), IF Contains(acc, Head(s)) THEN acc ELSE Append(acc, Head(s)))

Unique(s) == UniqueFrom(s, <<>>)

Digits == <<"0", "1", "2", "3", "4", "5", "6", "7", "8", "9">>

IsDigit(c) == Contains(Digits, c)

DigitValue(c) == (CHOOSE k \in DOMAIN Digits : Digits[k] = c) - 1

RECURSIVE DecimalFrom(_, _)
DecimalFrom(cs, acc) ==
    IF cs = <<>> THEN acc ELSE DecimalFrom(Tail(cs), 10 * acc + DigitValue(Head(cs)))

\* str::parse::<i64>(): an optional sign and then one or more decimal
\* digits; None for anything else.  A token is a sequence of characters.
ParseI64(tok) ==
    LET signed == tok # <<>> /\ Head(tok) \in {"+", "-"}
        body == IF signed THEN Tail(tok) ELSE tok
    IN IF body = <<>> \/ \E k \in DOMAIN body : ~IsDigit(body[k]) THEN None
       ELSE Some(IF signed /\ Head(tok) = "-" THEN 0 - DecimalFrom(body, 0)
                 ELSE DecimalFrom(body, 0))

Max(a, b) == IF a >= b THEN a ELSE b

Min(a, b) == IF a <= b THEN a ELSE b

RECURSIVE SumSeq(_)
SumSeq(s) == IF s = <<>> THEN 0 ELSE Head(s) + SumSeq(Tail(s))

RECURSIVE ProdSeq(_)
ProdSeq(s) == IF s = <<>> THEN 1 ELSE Head(s) * ProdSeq(Tail(s))

(***************************************************************************)
(* Day 25: randomized min cut, trials raced on a thread pool.              *)
(***************************************************************************)
\* Number of trials part1 makes: the range 0..1000 of the code, scaled down.
NumTrials == 2

\* The threads of the pool that par_bridge feeds.
Workers == {1, 2}

\* The cut size part1 looks for.
WantedCut == 3

\* parse_node_id: the name padded with "__", cut to its first three chars
parse_node_id(name) == SubSeq(name \o <<"_", "_">>, 1, 3)

\* graph.entry(a).or_insert(vec![]).push(b)
EntryPush(g, a, b) ==
    IF a \in DOMAIN g THEN [g EXCEPT ![a] = Append(@, b)]
    ELSE [n \in DOMAIN g \cup {a} |-> IF n = a THEN <<b>> ELSE g[n]]

\* the inner loop of parse: one line "a: b c d", both directions per edge
RECURSIVE ParseItem(_, _, _)
ParseItem(g, node_a, rest) ==
    IF rest = <<>> THEN g
    ELSE LET a == parse_node_id(node_a)
             b == parse_node_id(Head(rest))
         IN ParseItem(EntryPush(EntryPush(g, a, b), b, a), node_a, Tail(rest))

RECURSIVE ParseItems(_, _)
ParseItems(g, items) ==
    IF items = <<>> THEN g
    ELSE ParseItems(ParseItem(g, Head(Head(items)), Tail(Head(items))), Tail(items))

\* parse: build the adjacency lists, then remove duplicates from each
parse25(items) ==
    LET g == ParseItems(<<>>, items)
    IN [n \in DOMAIN g |-> Unique(g[n])]

\* Inputs: each line is the list of names parse::alphanums finds in it.
\* K4: every 3-edge cut isolates one node (1 * 3); the 2-2 cuts have 4 edges.
InputK4 ==
    << << <<"a">>, <<"b">>, <<"c">>, <<"d">> >>,
       << <<"b">>, <<"c">>, <<"d">> >>,
       << <<"c">>, <<"d">> >> >>

\* K4 without the edge b-d: two different 3-edge cuts, {a} | {b, c, d}
\* (1 * 3) and {a, b} | {c, d} (2 * 2); {b} and {d} have 2-edge cuts.
InputTwoCuts ==
    << << <<"a">>, <<"b">>, <<"c">>, <<"d">> >>,
       << <<"b">>, <<"c">> >>,
       << <<"c">>, <<"d">> >> >>

\* A triangle: every cut has 2 edges, no trial can succeed.
InputTriangle ==
    << << <<"a">>, <<"b">>, <<"c">> >>,
       << <<"b">>, <<"c">> >> >>

Inputs25 == {InputK4, InputTwoCuts, InputTriangle}

\* lines 76-81: every node with its adjacency list and the list [node]
InitMerged(graph) == [n \in DOMAIN graph |-> [nbrs |-> graph[n], inner |-> <<n>>]]

\* lines 102-110: point the neighbours of merged_node to merge_into instead
Repoint(nbrs, merged_node, merge_into) ==
    IF Contains(nbrs, merged_node)
    THEN Unique([k \in DOMAIN nbrs |->
                    IF nbrs[k] = merged_node THEN merge_into ELSE nbrs[k]])
    ELSE nbrs

\* lines 85-111: one iteration of the contraction loop, for the random
\* choices merged_node (a key) and idx (an index into its neighbours)
ContractStep(mg, merged_node, idx) ==
    LET old_neighbors == mg[merged_node].nbrs
        previously_merged == mg[merged_node].inner
        merge_into == old_neighbors[idx]
        new_inner == mg[merge_into].inner \o previously_merged
        new_nbrs == SelectSeq(mg[merge_into].nbrs \o old_neighbors,
                              LAMBDA n : n # merge_into /\ n # merged_node)
        keys == DOMAIN mg \ {merged_node}
    IN [n \in keys |->
            IF n = merge_into
            THEN [nbrs |-> Repoint(new_nbrs, merged_node, merge_into), inner |-> new_inner]
            ELSE [nbrs |-> Repoint(mg[n].nbrs, merged_node, merge_into), inner |-> mg[n].inner]]

\* lines 121-124: edges of the input graph from merged_a into merged_b
RECURSIVE CutEdgesFrom(_, _, _)
CutEdgesFrom(graph, merged_a, merged_b) ==
    IF merged_a = <<>> THEN 0
    ELSE Len(SelectSeq(graph[Head(merged_a)], LAMBDA o : Contains(merged_b, o)))
         + CutEdgesFrom(graph, Tail(merged_a), merged_b)

cut_edges(graph, merged_a, merged_b) == CutEdgesFrom(graph, merged_a, merged_b)

\* mutant: the sizes are added instead of multiplied
TrialResult_Sum(graph, mg, node_a, node_b) ==
    [cuts |-> CutEdgesFrom(graph, mg[node_a].inner, mg[node_b].inner),
     product |-> Len(mg[node_a].inner) + Len(mg[node_b].inner)]

\* lines 116-126 and the closure of part1 (134-135): (cuts, size_a * size_b)
TrialResult(graph, mg, node_a, node_b) ==
    [cuts |-> cut_edges(graph, mg[node_a].inner, mg[node_b].inner),
     product |-> Len(mg[node_a].inner) * Len(mg[node_b].inner)]

\* mutant: any cut of at least 3 edges is accepted
IsWanted_AtLeast(item) == item.cuts >= WantedCut

\* the predicate of find_any (line 136)
IsWanted(item) == item.cuts = WantedCut

IdleWorker == [pc |-> "idle", merged_graph |-> <<>>, item |-> None]

Start25 ==
    /\ \E items \in Inputs25 : d25_graph = parse25(items)
    /\ d25_iter = 0
    /\ d25_worker = [w \in Workers |-> IdleWorker]
    /\ d25_found = FALSE
    /\ d25_trials = {}
    /\ d25_out = [kind |-> "running", value |-> 0]

\* A pool thread takes the next item of the range and starts a trial on its
\* own copy of the graph (unless find_any is already satisfied).
Pull(w) ==
    /\ d25_worker[w].pc = "idle"
    /\ ~d25_found
    /\ d25_iter < NumTrials
    /\ d25_iter' = d25_iter + 1
    /\ d25_worker' = [d25_worker EXCEPT ![w].pc = "trial",
                                        ![w].merged_graph = InitMerged(d25_graph)]
    /\ UNCHANGED <<d25_graph, d25_found, d25_trials, d25_out>>

\* One pass of `while merged_graph.len() > 2`.
Contract(w) ==
    /\ d25_worker[w].pc = "trial"
    /\ LET mg == d25_worker[w].merged_graph IN
        /\ Cardinality(DOMAIN mg) > 2
        /\ \E merged_node \in DOMAIN mg :
            \E idx \in DOMAIN mg[merged_node].nbrs :
                d25_worker' = [d25_worker EXCEPT
                    ![w].merged_graph = ContractStep(mg, merged_node, idx)]
    /\ UNCHANGED <<d25_graph, d25_iter, d25_found, d25_trials, d25_out>>

\* The trial returns; find_any's folder keeps the item if it is wanted.
Finish(w) ==
    /\ d25_worker[w].pc = "trial"
    /\ LET mg == d25_worker[w].merged_graph IN
        /\ Cardinality(DOMAIN mg) = 2
        /\ \E node_a \in DOMAIN mg :
            LET node_b == CHOOSE n \in DOMAIN mg : n # node_a
                item == TrialResult(d25_graph, mg, node_a, node_b)
            IN /\ d25_trials' = d25_trials \cup {item}
               /\ IF IsWanted(item)
                  THEN /\ d25_worker' = [d25_worker EXCEPT ![w] =
                              [pc |-> "idle", merged_graph |-> <<>>, item |-> Some(item)]]
                       /\ d25_found' = TRUE
                  ELSE /\ d25_worker' = [d25_worker EXCEPT ![w].pc = "idle",
                                                           ![w].merged_graph = <<>>]
                       /\ UNCHANGED d25_found
    /\ UNCHANGED <<d25_graph, d25_iter, d25_out>>

\* A thread leaves the loop: the range is used up or an item was found.
Stop(w) ==
    /\ d25_worker[w].pc = "idle"
    /\ d25_found \/ d25_iter = NumTrials
    /\ d25_worker' = [d25_worker EXCEPT ![w].pc = "stopped"]
    /\ UNCHANGED <<d25_graph, d25_iter, d25_found, d25_trials, d25_out>>

\* mutant: the result of any finished trial is returned, wanted or not
Reduce_Unfiltered ==
    /\ d25_out.kind = "running"
    /\ \A w \in Workers : d25_worker[w].pc = "stopped"
    /\ IF d25_trials # {}
       THEN \E t \in d25_trials : d25_out' = [kind |-> "returned", value |-> t.product]
       ELSE d25_out' = [kind |-> "panicked", value |-> 0]
    /\ UNCHANGED <<d25_graph, d25_iter, d25_worker, d25_found, d25_trials>>

\* find_any reduces the threads' items to any one of them; expect() panics
\* when there is none.
Reduce ==
    /\ d25_out.kind = "running"
    /\ \A w \in Workers : d25_worker[w].pc = "stopped"
    /\ IF \E w \in Workers : d25_worker[w].item # None
       THEN \E w \in Workers :
                /\ d25_worker[w].item # None
                /\ d25_out' = [kind |-> "returned", value |-> d25_worker[w].item[1].product]
       ELSE d25_out' = [kind |-> "panicked", value |-> 0]
    /\ UNCHANGED <<d25_graph, d25_iter, d25_worker, d25_found, d25_trials>>

Next25 ==
    \/ \E w \in Workers : Pull(w)
    \/ \E w \in Workers : Contract(w)
    \/ \E w \in Workers : Finish(w)
    \/ \E w \in Workers : Stop(w)
    \/ Reduce

Init25 == Start25 /\ IdleAllBut({25})

Step25 == Next25 /\ UnchangedAllBut({25})

Spec25 == Init25 /\ [][Step25]_vars

\* ---- reference notions for the claims about day 25 ----
Nodes25 == DOMAIN d25_graph

\* number of edges of the input graph that leave the node set S
Crossing(S) ==
    Cardinality({e \in S \X (Nodes25 \ S) : Contains(d25_graph[e[1]], e[2])})

\* the size products |S| * |rest| of all cuts of exactly 3 edges
CutProducts ==
    {Cardinality(S) * Cardinality(Nodes25 \ S) :
        S \in {T \in SUBSET Nodes25 : T # {} /\ T # Nodes25 /\ Crossing(T) = 3}}

Returned25 == d25_out.kind = "returned"

Panicked25 == d25_out.kind = "panicked"

WantedTrials == {t \in d25_trials : t.cuts = 3}

\* C1: whatever the interleaving, the value part1 returns is the product
\* reported by some finished trial whose cut has exactly 3 edges, and that
\* product is the size product of a real 3-edge cut of the input graph; no
\* new trial starts once one is found; a step never changes the shared
\* graph and changes the state of at most one trial.
C1_ResultOfAThreeCutTrial ==
    Returned25 =>
        /\ \E t \in WantedTrials : d25_out.value = t.product
        /\ d25_out.value \in CutProducts

C1_TrialsIndependent ==
    /\ d25_graph' = d25_graph
    /\ d25_found => d25_iter' = d25_iter
    /\ \A w1, w2 \in Workers :
          (d25_worker'[w1] # d25_worker[w1] /\ d25_worker'[w2] # d25_worker[w2])
              => w1 = w2

C1_FirstResultWins == [](C1_ResultOfAThreeCutTrial) /\ [][C1_TrialsIndependent]_vars

\* C1 witness: two threads both found a 3-edge cut and part1 returned one
C1_Witness ==
    /\ Returned25
    /\ \A w \in Workers : d25_worker[w].item # None

\* C2 as stated: all trials of an execution that find a 3-edge cut report
\* the same product, so whichever wins, part1 returns the same value.
C2_SameProductWhoeverWins ==
    \A t1, t2 \in WantedTrials : t1.product = t2.product

\* C2 amended: on a graph whose 3-edge cuts all have the same size product,
\* every trial that finds a 3-edge cut reports that product and part1
\* returns it.
C2_SameProductOnUniqueCut ==
    Cardinality(CutProducts) = 1 =>
        /\ \A t \in WantedTrials : t.product \in CutProducts
        /\ Returned25 => d25_out.value \in CutProducts

\* C2 witness: the 3-edge cuts agree, a trial missed and part1 returned
C2_Witness ==
    /\ Cardinality(CutProducts) = 1
    /\ Returned25
    /\ \E t \in d25_trials : t.cuts # 3

\* C3: at most NumTrials trials are started; part1 panics only when all of
\* them ran and none has a cut of 3 edges; a value is returned only from a
\* thread's item whose cut has exactly 3 edges.
C3_TrialsBoundedAndOnlyThreeCuts ==
    /\ d25_iter <= NumTrials
    /\ Panicked25 =>
          /\ d25_iter = NumTrials
          /\ WantedTrials = {}
          /\ \A w \in Workers : d25_worker[w].pc = "stopped"
    /\ Returned25 =>
          \E w \in Workers :
              /\ d25_worker[w].item # None
              /\ d25_worker[w].item[1].cuts = 3
              /\ d25_out.value = d25_worker[w].item[1].product
    /\ \A w \in Workers :
          d25_worker[w].item # None => d25_worker[w].item[1].cuts = 3

\* C3 witness: all trials ran, none found 3 edges, part1 panicked
C3_Witness ==
    /\ Panicked25
    /\ d25_iter = NumTrials
    /\ d25_trials # {}

(***************************************************************************)
(* Day 2: cube games.                                                      *)
(***************************************************************************)
\* Longest hand (number of comma-separated items) of the inputs.
MaxHandItems == 2

T_red == <<"r", "e", "d">>

T_green == <<"g", "r", "e", "e", "n">>

T_blue == <<"b", "l", "u", "e">>

T_yellow == <<"y", "e", "l", "l", "o", "w">>

\* The items a hand of the inputs is made of.  An item is the list of
\* alphanumeric words of one comma-separated piece, as parse::alphanums
\* returns it (<<>>: a piece without any, on which alphanums panics).
HandItems ==
    {<<n, c>> : n \in {<<"3">>, <<"2", "0">>}, c \in {T_red, T_blue, T_yellow}}
    \cup { <<T_red>>,                      \* "red": the count is missing
           <<T_green, T_red>>,             \* "green red": no number
           <<<<"4">>, <<"5">>, T_green>>,  \* "4 5 green": the last two words count
           <<<<"4">>, T_green, <<"5">>>>,  \* "4 green 5"
           <<>> }                          \* "": no word at all

RECURSIVE SeqsUpTo(_, _)
SeqsUpTo(S, n) ==
    IF n = 0 THEN {<<>>}
    ELSE LET shorter == SeqsUpTo(S, n - 1)
         IN shorter \cup {Append(q, x) : q \in {r \in shorter : Len(r) = n - 1}, x \in S}

Hands02 == SeqsUpTo(HandItems, MaxHandItems) \ {<<>>}

\* "Game 1: <hand>" and "Game 1: <hand>; 2 green"
Inputs02 ==
    {<< [id |-> 1, hands |-> <<h>>] >> : h \in Hands02}
    \cup {<< [id |-> 1, hands |-> <<h, << <<<<"2">>, T_green>> >> >>] >> : h \in Hands02}

\* VecHelper::pair on the words of an item: the last two, popped from the
\* end; None stands for the panic of pop().unwrap() (or of alphanums).
PairOfItem(words) ==
    IF Len(words) < 2 THEN None
    ELSE Some(<<words[Len(words) - 1], words[Len(words)]>>)

\* lines 21-25: (color, count) per item; None when an unwrap panics
ParseHandItem(words) ==
    LET pr == PairOfItem(words)
    IN IF pr = None THEN None
       ELSE LET n == ParseI64(pr[1][1])
            IN IF n = None THEN None ELSE Some([color |-> pr[1][2], count |-> n[1]])

\* line 28: the count of the first item with that colour name, or zero
RECURSIVE color_count(_, _)
color_count(items, color) ==
    IF items = <<>> THEN 0
    ELSE IF Head(items).color = color THEN Head(items).count
    ELSE color_count(Tail(items), color)

\* mutant: a colour other than red, green, blue makes parse_hand panic
parse_hand_Strict(hand) ==
    LET parsed == [k \in DOMAIN hand |-> ParseHandItem(hand[k])]
    IN IF \E k \in DOMAIN parsed :
              \/ parsed[k] = None
              \/ parsed[k][1].color \notin {T_red, T_green, T_blue}
       THEN None
       ELSE LET items == [k \in DOMAIN parsed |-> parsed[k][1]]
            IN Some(<<color_count(items, T_red), color_count(items, T_green),
                      color_count(items, T_blue)>>)

\* parse_hand: [red, green, blue], or None when it panics
parse_hand(hand) ==
    LET parsed == [k \in DOMAIN hand |-> ParseHandItem(hand[k])]
    IN IF \E k \in DOMAIN parsed : parsed[k] = None THEN None
       ELSE LET items == [k \in DOMAIN parsed |-> parsed[k][1]]
            IN Some(<<color_count(items, T_red), color_count(items, T_green),
                      color_count(items, T_blue)>>)

\* parse: every game with its parsed hands; None when a hand panics
parse02(games) ==
    IF \E g \in DOMAIN games : \E h \in DOMAIN games[g].hands :
            parse_hand(games[g].hands[h]) = None
    THEN None
    ELSE Some([g \in DOMAIN games |->
                [id |-> games[g].id,
                 hands |-> [h \in DOMAIN games[g].hands |->
                                parse_hand(games[g].hands[h])[1]]]])

\* get_min_counts: per colour the maximum over the hands of the game
RECURSIVE ReduceMax(_, _)
ReduceMax(acc, hands) ==
    IF hands = <<>> THEN acc
    ELSE ReduceMax(<<Max(acc[1], Head(hands)[1]), Max(acc[2], Head(hands)[2]),
                     Max(acc[3], Head(hands)[3])>>, Tail(hands))

get_min_counts(games) ==
    [g \in DOMAIN games |->
        [id |-> games[g].id, hand |-> ReduceMax(Head(games[g].hands), Tail(games[g].hands))]]

part1_02(games) ==
    LET mc == get_min_counts(games)
        ok == SelectSeq(mc, LAMBDA m : m.hand[1] <= 12 /\ m.hand[2] <= 13 /\ m.hand[3] <= 14)
    IN SumSeq([k \in DOMAIN ok |-> ok[k].id])

part2_02(games) ==
    LET mc == get_min_counts(games)
    IN SumSeq([k \in DOMAIN mc |-> ProdSeq(mc[k].hand)])

Start02 ==
    /\ d02_input \in Inputs02
    /\ d02_out = NotStarted

\* run_solution_part(1, ..) on day 2
Run02Part1 ==
    /\ d02_out.part1 = Pending
    /\ LET games == parse02(d02_input)
       IN d02_out' = [d02_out EXCEPT !.part1 =
                        IF games = None THEN Pan ELSE Ret(part1_02(games[1]))]
    /\ UNCHANGED d02_input

\* run_solution_part(2, ..) on day 2
Run02Part2 ==
    /\ d02_out.part1.st = "returned"
    /\ d02_out.part2 = Pending
    /\ LET games == parse02(d02_input)
       IN d02_out' = [d02_out EXCEPT !.part2 =
                        IF games = None THEN Pan ELSE Ret(part2_02(games[1]))]
    /\ UNCHANGED d02_input

(***************************************************************************)
(* Day 5: seeds mapped through a chain of range maps.                      *)
(***************************************************************************)
\* Longest seed line (number of values after "seeds:") of the inputs.
MaxSeeds == 3

\* A computation that may panic: the value, or the panic.
Ok(v) == [panic |-> FALSE, val |-> v]

Panic == [panic |-> TRUE, val |-> <<>>]

\* parse_range: "destination source length" as (source range, destination range)
parse_range(items) ==
    LET destination_min == items[1]
        source_min == items[2]
        length == items[3]
    IN [from |-> <<source_min, source_min + length - 1>>,
        to |-> <<destination_min, destination_min + length - 1>>]

parse_map(lines) == [k \in DOMAIN lines |-> parse_range(lines[k])]

parse_maps(blocks) == [k \in DOMAIN blocks |-> parse_map(blocks[k])]

\* do_ranges_overlap: the assert panics on a range with min > max
do_ranges_overlap(from, to) ==
    IF ~(from[1] <= from[2] /\ to[1] <= to[2]) THEN Panic
    ELSE Ok(from[2] >= to[1] /\ from[1] <= to[2])

\* line 70: map.ranges.iter().find(..): the index of the first rule whose
\* source range overlaps `range`, 0 when there is none
RECURSIVE FindRule(_, _, _)
FindRule(rules, range, k) ==
    IF k > Len(rules) THEN Ok(0)
    ELSE LET o == do_ranges_overlap(range, rules[k].from)
         IN IF o.panic THEN Panic
            ELSE IF o.val THEN Ok(k)
            ELSE FindRule(rules, range, k + 1)

\* mutant: where b lies inside a, the part of a right of b is forgotten
intersect_ranges_LeftOnly(a, b) ==
    IF b[2] < a[1] \/ b[1] > a[2] THEN None
    ELSE IF b[1] <= a[1] /\ b[2] >= a[2]
         THEN Some([inter |-> a, leftover |-> <<>>])
    ELSE IF a[1] < b[1] /\ a[2] <= b[2]
         THEN Some([inter |-> <<b[1], a[2]>>, leftover |-> << <<a[1], b[1] - 1>> >>])
    ELSE IF a[2] > b[2] /\ a[1] >= b[1]
         THEN Some([inter |-> <<a[1], b[2]>>, leftover |-> << <<b[2] + 1, a[2]>> >>])
    ELSE Some([inter |-> b, leftover |-> << <<a[1], b[1] - 1>> >>])

\* intersect_ranges: the part of a inside b and the parts of a left over
intersect_ranges(a, b) ==
    IF b[2] < a[1] \/ b[1] > a[2] THEN None
    ELSE IF b[1] <= a[1] /\ b[2] >= a[2]
         THEN Some([inter |-> a, leftover |-> <<>>])
    ELSE IF a[1] < b[1] /\ a[2] <= b[2]
         THEN Some([inter |-> <<b[1], a[2]>>, leftover |-> << <<a[1], b[1] - 1>> >>])
    ELSE IF a[2] > b[2] /\ a[1] >= b[1]
         THEN Some([inter |-> <<a[1], b[2]>>, leftover |-> << <<b[2] + 1, a[2]>> >>])
    ELSE Some([inter |-> b, leftover |-> << <<a[1], b[1] - 1>>, <<b[2] + 1, a[2]>> >>])

\* apply_map_range: the loop over the stack of unmapped ranges
RECURSIVE ApplyLoop(_, _, _)
ApplyLoop(rules, unmapped_ranges, mapped_ranges) ==
    IF unmapped_ranges = <<>> THEN Ok(mapped_ranges)
    ELSE LET range == unmapped_ranges[Len(unmapped_ranges)]
             rest == SubSeq(unmapped_ranges, 1, Len(unmapped_ranges) - 1)
             found == FindRule(rules, range, 1)
         IN IF found.panic THEN Panic
            ELSE IF found.val = 0
                 THEN ApplyLoop(rules, rest, Append(mapped_ranges, range))
            ELSE LET rule == rules[found.val]
                     x == intersect_ranges(range, rule.from)[1]
                     offset == rule.to[1] - rule.from[1]
                 IN ApplyLoop(rules, rest \o x.leftover,
                              Append(mapped_ranges,
                                     <<x.inter[1] + offset, x.inter[2] + offset>>))

apply_map_range(rules, range) == ApplyLoop(rules, <<range>>, <<>>)

\* line 91: from_ranges.map(apply_map_range).flatten()
RECURSIVE ApplyMapAll(_, _, _)
ApplyMapAll(rules, from_ranges, acc) ==
    IF from_ranges = <<>> THEN Ok(acc)
    ELSE LET m == apply_map_range(rules, Head(from_ranges))
         IN IF m.panic THEN Panic
            ELSE ApplyMapAll(rules, Tail(from_ranges), acc \o m.val)

\* line 90: maps.iter().fold(vec![x], ..)
RECURSIVE FoldMaps(_, _)
FoldMaps(maps, from_ranges) ==
    IF maps = <<>> THEN Ok(from_ranges)
    ELSE LET m == ApplyMapAll(Head(maps), from_ranges, <<>>)
         IN IF m.panic THEN Panic ELSE FoldMaps(Tail(maps), m.val)

RECURSIVE MapSeeds(_, _, _)
MapSeeds(seed_ranges, maps, acc) ==
    IF seed_ranges = <<>> THEN Ok(acc)
    ELSE LET m == FoldMaps(maps, <<Head(seed_ranges)>>)
         IN IF m.panic THEN Panic
            ELSE MapSeeds(Tail(seed_ranges), maps, acc \o m.val)

RECURSIVE MinOfMins(_)
MinOfMins(ranges) ==
    IF Len(ranges) = 1 THEN ranges[1][1]
    ELSE Min(ranges[1][1], MinOfMins(Tail(ranges)))

\* get_min_location: min().unwrap() panics when there is no range at all
get_min_location(seed_ranges, maps) ==
    LET mapped_ranges == MapSeeds(seed_ranges, maps, <<>>)
    IN IF mapped_ranges.panic THEN Panic
       ELSE IF mapped_ranges.val = <<>> THEN Panic
       ELSE Ok(MinOfMins(mapped_ranges.val))

\* parse_i64 over the values of the seed line: panics on a non-number
ParseSeeds(tokens) ==
    IF \E k \in DOMAIN tokens : ParseI64(tokens[k]) = None THEN Panic
    ELSE Ok([k \in DOMAIN tokens |-> ParseI64(tokens[k])[1]])

\* array_chunks::<2>(): whole pairs only, a last single value is dropped
array_chunks2(values) ==
    [k \in 1..(Len(values) \div 2) |-> <<values[2 * k - 1], values[2 * k]>>]

part1_05(input) ==
    LET seeds == ParseSeeds(input.seeds)
    IN IF seeds.panic THEN Panic
       ELSE get_min_location([k \in DOMAIN seeds.val |-> <<seeds.val[k], seeds.val[k]>>],
                             parse_maps(input.maps))

part2_05(input) ==
    LET seeds == ParseSeeds(input.seeds)
    IN IF seeds.panic THEN Panic
       ELSE LET chunks == array_chunks2(seeds.val)
            IN get_min_location(
                   [k \in DOMAIN chunks |-> <<chunks[k][1], chunks[k][1] + chunks[k][2] - 1>>],
                   parse_maps(input.maps))

\* The values a seed line of the inputs is made of ("x": not a number).
SeedTokens == {<<"0">>, <<"2">>, <<"1", "3">>, <<"x">>}

\* The map blocks of the inputs, each rule "destination source length".
MapChains ==
    { <<>>,
      << << <<10, 2, 2>> >> >>,
      << << <<20, 0, 3>>, <<5, 12, 4>> >>, << <<0, 6, 2>>, <<30, 20, 2>> >> >> }

Inputs05 ==
    {[seeds |-> sd, maps |-> mc] : sd \in SeqsUpTo(SeedTokens, MaxSeeds), mc \in MapChains}

Start05 ==
    /\ d05_input \in Inputs05
    /\ d05_out = NotStarted

\* run_solution_part(1, ..) on day 5
Run05Part1 ==
    /\ d05_out.part1 = Pending
    /\ LET r == part1_05(d05_input)
       IN d05_out' = [d05_out EXCEPT !.part1 = IF r.panic THEN Pan ELSE Ret(r.val)]
    /\ UNCHANGED d05_input

\* run_solution_part(2, ..) on day 5
Run05Part2 ==
    /\ d05_out.part1.st = "returned"
    /\ d05_out.part2 = Pending
    /\ LET r == part2_05(d05_input)
       IN d05_out' = [d05_out EXCEPT !.part2 = IF r.panic THEN Pan ELSE Ret(r.val)]
    /\ UNCHANGED d05_input

(***************************************************************************)
(* Malformed input (days 2 and 5).                                         *)
(***************************************************************************)
InitMalformed ==
    \/ Start02 /\ IdleAllBut({2})
    \/ Start05 /\ IdleAllBut({5})

NextMalformed ==
    \/ Run02Part1 /\ UnchangedAllBut({2})
    \/ Run02Part2 /\ UnchangedAllBut({2})
    \/ Run05Part1 /\ UnchangedAllBut({5})
    \/ Run05Part2 /\ UnchangedAllBut({5})

SpecMalformed == InitMalformed /\ [][NextMalformed]_vars

\* ---- reference notions for the claim about malformed input ----
KnownColours == {T_red, T_green, T_blue}

\* the colour word of an item is its last word
NamesUnknownColour(item) == item # <<>> /\ item[Len(item)] \notin KnownColours

HasUnknownColour(games) ==
    \E g \in DOMAIN games : \E h \in DOMAIN games[g].hands :
        \E k \in DOMAIN games[g].hands[h] : NamesUnknownColour(games[g].hands[h][k])

\* an item on which an unwrap of parse_hand fails: fewer than two words,
\* or the word before the last is not a number
ItemFailsUnwrap(item) ==
    Len(item) < 2 \/ ParseI64(item[Len(item) - 1]) = None

HasFailingItem(games) ==
    \E g \in DOMAIN games : \E h \in DOMAIN games[g].hands :
        \E k \in DOMAIN games[g].hands[h] : ItemFailsUnwrap(games[g].hands[h][k])

\* the games without the items that name an unknown colour
WithoutUnknownColours(games) ==
    [g \in DOMAIN games |->
        [id |-> games[g].id,
         hands |-> [h \in DOMAIN games[g].hands |->
                     SelectSeq(games[g].hands[h], LAMBDA it : ~NamesUnknownColour(it))]]]

Done02 == d02_out.part1.st = "panicked" \/ d02_out.part2.st \in {"returned", "panicked"}

Done05 == d05_out.part1.st = "panicked" \/ d05_out.part2.st \in {"returned", "panicked"}

PanickedIn(out) == out.part1.st = "panicked" \/ out.part2.st = "panicked"

OddSeedLine == d05_out # IdleOut /\ Len(d05_input.seeds) % 2 = 1

MaxDay == 4

\* str::parse::<u32>(): an optional "+", then one or more decimal digits;
\* None for anything else (the arguments of the model stay far below
\* u32::MAX, where parse fails too)
ParseU32(tok) ==
    LET body == IF tok # <<>> /\ Head(tok) = "+" THEN Tail(tok) ELSE tok
    IN IF body = <<>> \/ \E k \in DOMAIN body : ~IsDigit(body[k]) THEN None
       ELSE Some(DecimalFrom(body, 0))

\* build_solution!: the day number from the file name, and the closures
\* that call part1 and part2 of the module in that file
SolutionOfFile(nn) ==
    [day |-> nn, part1 |-> <<"part1", nn>>, part2 |-> <<"part2", nn>>]

\* solutions(): one entry per day*.rs file, in the order list_files! lists
\* them.  The registries of the model: every non-empty list of distinct
\* files among day01.rs .. day<MaxDay>.rs.
RECURSIVE DistinctSeqs(_, _)
DistinctSeqs(S, n) ==
    IF n = 0 THEN {<<>>}
    ELSE LET shorter == DistinctSeqs(S, n - 1)
         IN shorter \cup UNION {{Append(q, x) : x \in S \ Range(q)} :
                                   q \in {r \in shorter : Len(r) = n - 1}}

Registries ==
    {[k \in DOMAIN q |-> SolutionOfFile(q[k])] : q \in DistinctSeqs(1..MaxDay, MaxDay) \ {<<>>}}

\* The command lines of the model: no argument, or one or two arguments.
ArgTokens ==
    {<<Digits[d + 1]>> : d \in 0..(MaxDay + 1)}
    \cup { <<"0", "2">>, <<"+", "3">>, <<"-", "1">>, <<"x">>, <<"2", "x">>, <<>> }

ArgLists == {<<>>} \cup {<<a>> : a \in ArgTokens} \cup {<<a, <<"1">>>> : a \in ArgTokens}

\* line 48: the maximum of the day numbers
RECURSIVE MaxDayOf(_)
MaxDayOf(solutions) ==
    IF Len(solutions) = 1 THEN solutions[1].day
    ELSE Max(solutions[1].day, MaxDayOf(Tail(solutions)))

\* line 52: args.get(1).and_then(|s| s.parse::<u32>().ok()).unwrap_or(latest_day)
selected_day(args, latest_day) ==
    IF args = <<>> THEN latest_day
    ELSE IF ParseU32(args[1]) = None THEN latest_day
    ELSE ParseU32(args[1])[1]

\* mutant: the selected day is used as an index into the list
FindSolution_ByIndex(solutions, day) ==
    IF day \in DOMAIN solutions THEN Some(solutions[day]) ELSE None

\* line 55: solutions.into_iter().find(|(d, _, _)| *d == selected_day)
FindSolution(solutions, day) ==
    IF \E k \in DOMAIN solutions : solutions[k].day = day
    THEN Some(solutions[CHOOSE k \in DOMAIN solutions :
                  /\ solutions[k].day = day
                  /\ \A j \in 1..(k - 1) : solutions[j].day # day])
    ELSE None

StartMain ==
    /\ main_solutions \in Registries
    /\ main_args \in ArgLists
    /\ main_pc = "start"
    /\ main_solution = None
    /\ main_ran = <<>>

\* main, lines 47-55: unwrap panics when no solution has the selected day
MainSelect ==
    /\ main_pc = "start"
    /\ LET latest_day == MaxDayOf(main_solutions)
           found == FindSolution(main_solutions, selected_day(main_args, latest_day))
       IN /\ main_solution' = found
          /\ main_pc' = IF found = None THEN "panicked" ELSE "selected"
    /\ UNCHANGED <<main_solutions, main_args, main_ran>>

\* run_solution_day, line 46: read inputs/dayNN.txt of the solution's day;
\* expect() panics when the file cannot be read
ReadInput ==
    /\ main_pc = "selected"
    /\ \E readable \in BOOLEAN :
          main_pc' = IF readable THEN "part1" ELSE "panicked"
    /\ UNCHANGED <<main_solutions, main_args, main_solution, main_ran>>

\* run_solution_part(1, &solution.1, ..)
RunPart1 ==
    /\ main_pc = "part1"
    /\ main_ran' = Append(main_ran, main_solution[1].part1)
    /\ main_pc' = "part2"
    /\ UNCHANGED <<main_solutions, main_args, main_solution>>

\* run_solution_part(2, &solution.2, ..)
RunPart2 ==
    /\ main_pc = "part2"
    /\ main_ran' = Append(main_ran, main_solution[1].part2)
    /\ main_pc' = "done"
    /\ UNCHANGED <<main_solutions, main_args, main_solution>>

InitMain == StartMain /\ IdleAllBut({0})

NextMain ==
    \/ MainSelect /\ UnchangedAllBut({0})
    \/ ReadInput /\ UnchangedAllBut({0})
    \/ RunPart1 /\ UnchangedAllBut({0})
    \/ RunPart2 /\ UnchangedAllBut({0})

SpecMain == InitMain /\ [][NextMain]_vars

\* ---- reference notions for the claim about the executable ----
RegisteredDays == {main_solutions[k].day : k \in DOMAIN main_solutions}

HighestDay == CHOOSE d \in RegisteredDays : \A e \in RegisteredDays : e <= d

\* the argument is a plain decimal number
NumericArg ==
    /\ main_args # <<>>
    /\ main_args[1] # <<>>
    /\ \A k \in DOMAIN main_args[1] : IsDigit(main_args[1][k])

\* the day the claim says is run: none for a numeric argument that names
\* no registered day or for an argument that is no number
ExpectedDay ==
    IF main_args = <<>> THEN {HighestDay}
    ELSE IF NumericArg THEN {DecimalFrom(main_args[1], 0)} \cap RegisteredDays
    ELSE {}

\* C5: with no argument main runs the highest-numbered registered day,
\* with a numeric argument d that names a registered day it runs day d:
\* the solution handed to run_solution_day is that day's, and the
\* functions called are that day's part1 and then part2, never another's.
C5_RunsTheSelectedDay ==
    \A d \in ExpectedDay :
        /\ main_pc # "start" =>
              /\ main_solution # None
              /\ main_solution[1] = SolutionOfFile(d)
        /\ \A k \in DOMAIN main_ran : main_ran[k][2] = d
        /\ main_pc = "done" => main_ran = << <<"part1", d>>, <<"part2", d>> >>

\* C5 witness: a numeric argument named a registered day that is neither
\* the highest day nor the first of the list, and both parts ran
C5_Witness ==
    /\ main_pc = "done"
    /\ NumericArg
    /\ ExpectedDay # {}
    /\ \A d \in ExpectedDay : d # HighestDay /\ main_solutions[1].day # d

(***************************************************************************)
(* Day 20: pulse propagation, part 1.                                      *)
(***************************************************************************)
\* The number of button presses of part1.
Presses == 1000

\* parse::module_type: "&" conjunction, "%" flip-flop, otherwise broadcast
module_type(type_symbol) ==
    IF type_symbol = "&" THEN "Conjunction"
    ELSE IF type_symbol = "%" THEN "FlipFlop"
    ELSE "Broadcast"

\* parse::module: a line "<symbol><name> -> <outputs>"
ParseModule(line) ==
    [name |-> line.name, module_type |-> module_type(line.symbol),
     inputs |-> <<>>, input_values |-> <<>>, outputs |-> line.outputs]

\* lines 108-113: the outputs of one module become inputs of their targets
RECURSIVE ConnectOutputs(_, _, _)
ConnectOutputs(circuit, name, outputs) ==
    IF outputs = <<>> THEN circuit
    ELSE LET to == Head(outputs)
             next == IF to \in DOMAIN circuit
                     THEN [circuit EXCEPT ![to].inputs = Append(@, name),
                                          ![to].input_values = Append(@, FALSE)]
                     ELSE circuit
         IN ConnectOutputs(next, name, Tail(outputs))

\* lines 107-114, over the modules in the order `order`
RECURSIVE ConnectAll(_, _, _)
ConnectAll(circuit, modules, order) ==
    IF order = <<>> THEN circuit
    ELSE ConnectAll(ConnectOutputs(circuit, modules[Head(order)].name,
                                   modules[Head(order)].outputs),
                    modules, Tail(order))

\* parse::circuit.  The code connects the modules in the iteration order of
\* a HashMap; the model takes the order of the lines (the order only
\* permutes a module's input list, which is looked up by name).
circuit20(lines) ==
    LET modules == [k \in DOMAIN lines |-> ParseModule(lines[k])]
        names == {modules[k].name : k \in DOMAIN modules}
        byName == [n \in names |->
                     modules[CHOOSE k \in DOMAIN modules :
                               /\ modules[k].name = n
                               /\ \A j \in DOMAIN modules : modules[j].name = n => j <= k]]
        connected == ConnectAll(byName, modules, [k \in DOMAIN modules |-> k])
    IN [connected EXCEPT !["broadcaster"].inputs = Append(@, "button"),
                         !["broadcaster"].input_values = Append(@, FALSE)]

\* The circuit of tests::test (lines 253-258).
Example20 ==
    << [symbol |-> "", name |-> "broadcaster", outputs |-> <<"a">>],
       [symbol |-> "%", name |-> "a", outputs |-> <<"inv", "con">>],
       [symbol |-> "&", name |-> "inv", outputs |-> <<"b">>],
       [symbol |-> "%", name |-> "b", outputs |-> <<"con">>],
       [symbol |-> "&", name |-> "con", outputs |-> <<"output">>] >>

\* A second circuit: three flip-flops in a chain and an inverter back.
Chain20 ==
    << [symbol |-> "", name |-> "broadcaster", outputs |-> <<"a", "b", "c">>],
       [symbol |-> "%", name |-> "a", outputs |-> <<"b">>],
       [symbol |-> "%", name |-> "b", outputs |-> <<"c">>],
       [symbol |-> "%", name |-> "c", outputs |-> <<"inv">>],
       [symbol |-> "&", name |-> "inv", outputs |-> <<"a">>] >>

Inputs20 == {Example20, Chain20}

\* Module::set_input
set_input(module, from_module, value) ==
    LET index == CHOOSE k \in DOMAIN module.inputs :
                    /\ module.inputs[k] = from_module
                    /\ \A j \in 1..(k - 1) : module.inputs[j] # from_module
    IN [module EXCEPT !.input_values[index] = value]

\* process_signal: the circuit afterwards and the value the module sends
process_signal(circuit, signal) ==
    IF signal.to \notin DOMAIN circuit THEN [circuit |-> circuit, new_signal |-> None]
    ELSE LET module == circuit[signal.to] IN
         IF module.module_type = "Broadcast"
         THEN [circuit |-> circuit, new_signal |-> Some(signal.value)]
         ELSE IF module.module_type = "FlipFlop"
         THEN IF ~signal.value
              THEN [circuit |-> [circuit EXCEPT ![signal.to].input_values[1] = ~@],
                    new_signal |-> Some(~module.input_values[1])]
              ELSE [circuit |-> circuit, new_signal |-> None]
         ELSE LET updated == set_input(module, signal.from, signal.value)
              IN [circuit |-> [circuit EXCEPT ![signal.to] = updated],
                  new_signal |->
                      Some(~(\A k \in DOMAIN updated.input_values : updated.input_values[k]))]

\* mutant: the newest signal is taken first (pop_back)
PopSignal_Back(signals) ==
    [signal |-> signals[Len(signals)], rest |-> SubSeq(signals, 1, Len(signals) - 1)]

\* signals.pop_front()
PopSignal(signals) == [signal |-> Head(signals), rest |-> Tail(signals)]

\* lines 173-175: one signal per output, pushed at the back; seq numbers
\* the signals in the order they are sent (history)
PushOutputs(signals, from, outputs, value, sent) ==
    signals \o [k \in DOMAIN outputs |->
                  [from |-> from, to |-> outputs[k], value |-> value, seq |-> sent + k]]

Start20 ==
    /\ \E lines \in Inputs20 : d20_circuit = circuit20(lines)
    /\ d20_signals = <<>>
    /\ d20_i = 0
    /\ d20_low = 0
    /\ d20_high = 0
    /\ d20_sent = 0
    /\ d20_taken = 0
    /\ d20_out = None

\* lines 160-162: the next pass of the for loop pushes the button's pulse
PressButton ==
    /\ d20_out = None
    /\ d20_signals = <<>>
    /\ d20_i < Presses
    /\ d20_i' = d20_i + 1
    /\ d20_signals' = << [from |-> "button", to |-> "broadcaster", value |-> FALSE,
                          seq |-> d20_sent + 1] >>
    /\ d20_sent' = d20_sent + 1
    /\ UNCHANGED <<d20_circuit, d20_low, d20_high, d20_taken, d20_out>>

\* lines 163-177: one pass of `while let Some(signal) = signals.pop_front()`
ProcessSignal ==
    /\ d20_out = None
    /\ d20_signals # <<>>
    /\ LET popped == PopSignal(d20_signals)
           signal == popped.signal
           r == process_signal(d20_circuit, signal)
       IN /\ IF signal.value
             THEN d20_high' = d20_high + 1 /\ UNCHANGED d20_low
             ELSE d20_low' = d20_low + 1 /\ UNCHANGED d20_high
          /\ d20_circuit' = r.circuit
          /\ IF r.new_signal # None
             THEN LET outputs == r.circuit[signal.to].outputs
                  IN /\ d20_signals' = PushOutputs(popped.rest, signal.to, outputs,
                                                   r.new_signal[1], d20_sent)
                     /\ d20_sent' = d20_sent + Len(outputs)
             ELSE /\ d20_signals' = popped.rest
                  /\ UNCHANGED d20_sent
          /\ d20_taken' = d20_taken + 1
    /\ UNCHANGED <<d20_i, d20_out>>

\* line 179
Return20 ==
    /\ d20_out = None
    /\ d20_signals = <<>>
    /\ d20_i = Presses
    /\ d20_out' = Some(d20_low * d20_high)
    /\ UNCHANGED <<d20_circuit, d20_signals, d20_i, d20_low, d20_high, d20_sent, d20_taken>>

Init20 == Start20 /\ IdleAllBut({20})

Next20 ==
    \/ PressButton /\ UnchangedAllBut({20})
    \/ ProcessSignal /\ UnchangedAllBut({20})
    \/ Return20 /\ UnchangedAllBut({20})

Spec20 == Init20 /\ [][Next20]_vars

\* ---- reference notions for the claim about day 20 part 1 ----
Wiring(circuit) ==
    [n \in DOMAIN circuit |-> <<circuit[n].module_type, circuit[n].outputs>>]

IsExample20 == Wiring(d20_circuit) = Wiring(circuit20(Example20))

\* C6: part1 presses the button 1000 times; the queue always holds exactly
\* the signals sent and not yet processed, oldest first (so signals are
\* processed in the order they were sent); every processed signal is
\* counted as low or high, the button's and those to undeclared modules
\* included; the button is pressed only when the queue is drained; the
\* value returned is low * high, 11687500 on the example circuit.
C6_QueueAndCounts ==
    /\ \A k \in DOMAIN d20_signals : d20_signals[k].seq = d20_taken + k
    /\ d20_sent = d20_taken + Len(d20_signals)
    /\ d20_low + d20_high = d20_taken
    /\ d20_i <= Presses
    /\ d20_out # None =>
          /\ d20_i = Presses
          /\ d20_signals = <<>>
          /\ d20_out = Some(d20_low * d20_high)
          /\ IsExample20 => d20_out = Some(11687500)

C6_PressOnlyWhenDrained ==
    /\ d20_i' # d20_i => d20_signals = <<>> /\ d20_i' = d20_i + 1
    /\ d20_taken' # d20_taken =>
          /\ d20_taken' = d20_taken + 1
          /\ Head(d20_signals).seq = d20_taken'

C6_Part1FifoProduct == [](C6_QueueAndCounts) /\ [][C6_PressOnlyWhenDrained]_vars

\* C6 witness: part1 returned on the example circuit, after pulses were
\* sent to the undeclared module "output"
C6_Witness ==
    /\ IsExample20
    /\ d20_out = Some(11687500)
    /\ d20_i = 1000
    /\ "output" \notin DOMAIN d20_circuit

(***************************************************************************)
(* Day 1: calibration values.                                              *)
(***************************************************************************)
\* Longest input text of the generated inputs, in pieces.
MaxPieces == 3

\* str::split("\n") by the places of the newlines: the pieces between them
SplitNewline(text) ==
    LET marks == {k \in DOMAIN text : text[k] = "\n"} \cup {0, Len(text) + 1}
        Mark(n) == CHOOSE k \in marks : Cardinality({j \in marks : j < k}) = n
    IN [n \in 1..(Cardinality(marks) - 1) |-> SubSeq(text, Mark(n - 1) + 1, Mark(n) - 1)]

\* str::lines(): the pieces between the newlines, without an empty piece
\* at the end
Lines(text) ==
    LET pieces == SplitNewline(text)
    IN IF pieces[Len(pieces)] = <<>> THEN SubSeq(pieces, 1, Len(pieces) - 1) ELSE pieces

\* str::trim(): without the white space at both ends
RECURSIVE TrimStart(_)
TrimStart(line) ==
    IF line # <<>> /\ Head(line) = " " THEN TrimStart(Tail(line)) ELSE line

RECURSIVE TrimEnd(_)
TrimEnd(line) ==
    IF line # <<>> /\ line[Len(line)] = " "
    THEN TrimEnd(SubSeq(line, 1, Len(line) - 1)) ELSE line

Trim(line) == TrimEnd(TrimStart(line))

\* lines 17-23: the number made of the first and the last digit of a line;
\* Panic when the line has no digit (first().unwrap())
LineNumber(line) ==
    LET digits == SelectSeq(Trim(line), IsDigit)
    IN IF digits = <<>> THEN Panic
       ELSE Ok(DecimalFrom(<<digits[1], digits[Len(digits)]>>, 0))

RECURSIVE SumLines(_, _)
SumLines(lines, acc) ==
    IF lines = <<>> THEN Ok(acc)
    ELSE LET n == LineNumber(Head(lines))
         IN IF n.panic THEN Panic ELSE SumLines(Tail(lines), acc + n.val)

sum_numbers(input) == SumLines(Lines(input), 0)

part1_01(input) == sum_numbers(input)

StartsWith(s, prefix) ==
    Len(s) >= Len(prefix) /\ SubSeq(s, 1, Len(prefix)) = prefix

\* str::replace: every non-overlapping match, from left to right
RECURSIVE Replace(_, _, _)
Replace(s, search, replace) ==
    LET starts == {k \in 1..(Len(s) - Len(search) + 1) :
                      SubSeq(s, k, k + Len(search) - 1) = search}
    IN IF starts = {} THEN s
       ELSE LET first == CHOOSE k \in starts : \A j \in starts : k <= j
            IN SubSeq(s, 1, first - 1) \o replace
               \o Replace(SubSeq(s, first + Len(search), Len(s)), search, replace)

\* lines 34-44: the table of replacements, in the order of the fold
Replacements ==
    << <<<<"o", "n", "e">>, <<"o", "1", "e">>>>,
       <<<<"t", "w", "o">>, <<"t", "2", "o">>>>,
       <<<<"t", "h", "r", "e", "e">>, <<"t", "h", "3", "e", "e">>>>,
       <<<<"f", "o", "u", "r">>, <<"f", "4", "u", "r">>>>,
       <<<<"f", "i", "v", "e">>, <<"f", "5", "v", "e">>>>,
       <<<<"s", "i", "x">>, <<"s", "6", "x">>>>,
       <<<<"s", "e", "v", "e", "n">>, <<"s", "e", "7", "e", "n">>>>,
       <<<<"e", "i", "g", "h", "t">>, <<"e", "i", "8", "h", "t">>>>,
       <<<<"n", "i", "n", "e">>, <<"n", "9", "n", "e">>>> >>

\* mutant: the whole word is replaced by its digit ("one" -> "1")
RECURSIVE ReplaceAllWords_Whole(_, _)
ReplaceAllWords_Whole(input, table) ==
    IF table = <<>> THEN input
    ELSE ReplaceAllWords_Whole(
             Replace(input, Head(table)[1], SelectSeq(Head(table)[2], IsDigit)),
             Tail(table))

\* the fold of line 44
RECURSIVE ReplaceAllWords(_, _)
ReplaceAllWords(input, table) ==
    IF table = <<>> THEN input
    ELSE ReplaceAllWords(Replace(input, Head(table)[1], Head(table)[2]), Tail(table))

part2_01(input) == sum_numbers(ReplaceAllWords(input, Replacements))

\* The input of tests::test_part1 (lines 55-59).
Example01Part1 ==
    <<"1", "a", "b", "c", "2", "\n", " ", " ", " ", " ", " ", " ", " ", " ",
       " ", " ", " ", " ", "p", "q", "r", "3", "s", "t", "u", "8", "v", "w",
       "x", "\n", " ", " ", " ", " ", " ", " ", " ", " ", " ", " ", " ", " ",
       "a", "1", "b", "2", "c", "3", "d", "4", "e", "5", "f", "\n", " ", " ",
       " ", " ", " ", " ", " ", " ", " ", " ", " ", " ", "t", "r", "e", "b",
       "7", "u", "c", "h", "e", "t">>

\* The input of tests::test_part2 (lines 66-73).
Example01Part2 ==
    <<"t", "w", "o", "1", "n", "i", "n", "e", "\n", " ", " ", " ", " ", " ",
       " ", " ", " ", " ", " ", " ", " ", "e", "i", "g", "h", "t", "w", "o",
       "t", "h", "r", "e", "e", "\n", " ", " ", " ", " ", " ", " ", " ", " ",
       " ", " ", " ", " ", "a", "b", "c", "o", "n", "e", "2", "t", "h", "r",
       "e", "e", "x", "y", "z", "\n", " ", " ", " ", " ", " ", " ", " ", " ",
       " ", " ", " ", " ", "x", "t", "w", "o", "n", "e", "3", "f", "o", "u",
       "r", "\n", " ", " ", " ", " ", " ", " ", " ", " ", " ", " ", " ", " ",
       "4", "n", "i", "n", "e", "e", "i", "g", "h", "t", "s", "e", "v", "e",
       "n", "2", "\n", " ", " ", " ", " ", " ", " ", " ", " ", " ", " ", " ",
       " ", "z", "o", "n", "e", "i", "g", "h", "t", "2", "3", "4", "\n", " ",
       " ", " ", " ", " ", " ", " ", " ", " ", " ", " ", " ", "7", "p", "q",
       "r", "s", "t", "s", "i", "x", "t", "e", "e", "n">>

\* The pieces the generated inputs are concatenated from: the digit words
\* that can share a letter with a neighbour, the rests of such words
\* ("two" "ne" is "twone", "eight" "wo" is "eightwo"), a digit and a line
\* break.
Pieces01 ==
    {Replacements[k][1] : k \in {1, 2, 3, 8, 9}}
    \cup { <<"n", "e">>, <<"w", "o">>, <<"h", "r", "e", "e">>, <<"i", "g", "h", "t">>,
           <<"5">>, <<"\n">> }

RECURSIVE Texts01(_)
Texts01(n) ==
    IF n = 0 THEN {<<>>}
    ELSE LET shorter == Texts01(n - 1)
         IN shorter \cup {t \o p : t \in shorter, p \in Pieces01}

Inputs01 == Texts01(MaxPieces) \cup {Example01Part1, Example01Part2}

Start01 ==
    /\ d01_input \in Inputs01
    /\ d01_out = NotStarted

\* a call of part1 (as tests::test_part1 makes it)
Call01Part1 ==
    /\ d01_out.part1 = Pending
    /\ LET r == part1_01(d01_input)
       IN d01_out' = [d01_out EXCEPT !.part1 = IF r.panic THEN Pan ELSE Ret(r.val)]
    /\ UNCHANGED d01_input

\* a call of part2 (as tests::test_part2 makes it)
Call01Part2 ==
    /\ d01_out.part2 = Pending
    /\ LET r == part2_01(d01_input)
       IN d01_out' = [d01_out EXCEPT !.part2 = IF r.panic THEN Pan ELSE Ret(r.val)]
    /\ UNCHANGED d01_input

Init01 == Start01 /\ IdleAllBut({1})

Next01 ==
    \/ Call01Part1 /\ UnchangedAllBut({1})
    \/ Call01Part2 /\ UnchangedAllBut({1})

Spec01 == Init01 /\ [][Next01]_vars

\* ---- reference notions for the claim about day 1 ----
\* the digit that starts at position i of the line: a decimal digit or,
\* with words, a spelled-out digit; None when none starts there
DigitStartingAt(line, i, words) ==
    IF IsDigit(line[i]) THEN Some(DigitValue(line[i]))
    ELSE IF words /\ \E k \in DOMAIN Replacements :
                        StartsWith(SubSeq(line, i, Len(line)), Replacements[k][1])
         THEN Some(CHOOSE k \in DOMAIN Replacements :
                      StartsWith(SubSeq(line, i, Len(line)), Replacements[k][1]))
    ELSE None

\* first and last occurrence of a digit in the line, as a two-digit number
RefLine(line, words) ==
    LET at == {i \in DOMAIN line : DigitStartingAt(line, i, words) # None}
        first == CHOOSE i \in at : \A j \in at : i <= j
        last == CHOOSE i \in at : \A j \in at : j <= i
    IN 10 * DigitStartingAt(line, first, words)[1] + DigitStartingAt(line, last, words)[1]

HasDigit(line, words) == \E i \in DOMAIN line : DigitStartingAt(line, i, words) # None

RECURSIVE RefSum(_, _)
RefSum(lines, words) ==
    IF lines = <<>> THEN 0 ELSE RefLine(Head(lines), words) + RefSum(Tail(lines), words)

\* the outcome the claim states for a text: the sum over its lines, or a
\* panic when a line has no digit at all
RefOutcome(text, words) ==
    LET lines == Lines(text)
    IN IF \E k \in DOMAIN lines : ~HasDigit(lines[k], words) THEN Pan
       ELSE Ret(RefSum(lines, words))

\* C7: part1 is the sum over the lines of (first digit, last digit); part2
\* is the same sum with the words one..nine counted as digits where they
\* occur, overlapping spellings included; 142 and 281 on the examples.
C7_FirstAndLastDigit ==
    /\ d01_out.part1 \in {Pending, RefOutcome(d01_input, FALSE)}
    /\ d01_out.part2 \in {Pending, RefOutcome(d01_input, TRUE)}
    /\ d01_input = Example01Part1 => d01_out.part1 \in {Pending, Ret(142)}
    /\ d01_input = Example01Part2 => d01_out.part2 \in {Pending, Ret(281)}

\* C7 witness: part2 returned on a text in which two spelled-out digits
\* share a letter and no decimal digit occurs
C7_Witness ==
    /\ d01_out.part2.st = "returned"
    /\ d01_input = <<"e", "i", "g", "h", "t", "w", "o">>
    /\ d01_out.part2.val = 82

(***************************************************************************)
(* Day 6: boat races.                                                      *)
(***************************************************************************)
\* Largest number of races of the generated inputs.
MaxRaces == 2

\* The text of an input: "Time: 7 15 30\nDistance: 9 40 200", each
\* number preceded by two blanks.
RECURSIVE JoinTokens(_)
JoinTokens(tokens) ==
    IF tokens = <<>> THEN <<>>
    ELSE <<" ", " ">> \o Head(tokens) \o JoinTokens(Tail(tokens))

Text06(input) ==
    <<"T", "i", "m", "e", ":">> \o JoinTokens(input.times) \o <<"\n">>
    \o <<" ", " ", "D", "i", "s", "t", "a", "n", "c", "e", ":">>
    \o JoinTokens(input.distances)

\* s.split(":").last(): the text after the last colon
RECURSIVE AfterLastColon(_, _)
AfterLastColon(line, cur) ==
    IF line = <<>> THEN cur
    ELSE IF Head(line) = ":" THEN AfterLastColon(Tail(line), <<>>)
    ELSE AfterLastColon(Tail(line), Append(cur, Head(line)))

\* str::split_whitespace(): the maximal runs of non-blank characters
RECURSIVE SplitWhitespace(_, _, _)
SplitWhitespace(s, cur, acc) ==
    IF s = <<>> THEN (IF cur = <<>> THEN acc ELSE Append(acc, cur))
    ELSE IF Head(s) = " "
         THEN SplitWhitespace(Tail(s), <<>>, IF cur = <<>> THEN acc ELSE Append(acc, cur))
    ELSE SplitWhitespace(Tail(s), Append(cur, Head(s)), acc)

\* lines 33-42: the numbers of one line; Panic when a word is no number
LineNumbers06(line) ==
    LET words == SplitWhitespace(Trim(AfterLastColon(line, <<>>)), <<>>, <<>>)
    IN IF \E k \in DOMAIN words : ParseI64(words[k]) = None THEN Panic
       ELSE Ok([k \in DOMAIN words |-> ParseI64(words[k])[1]])

\* lines 31-46: the rounds, times zipped with distances; pair() panics
\* when the text has fewer than two lines
Rounds06(text) ==
    LET lines == Lines(text)
    IN IF Len(lines) < 2 THEN Panic
       ELSE LET times == LineNumbers06(lines[1])
                distances == LineNumbers06(lines[2])
            IN IF times.panic \/ distances.panic THEN Panic
               ELSE Ok([k \in 1..Min(Len(times.val), Len(distances.val)) |->
                           <<times.val[k], distances.val[k]>>])

\* mutant: a tie with the record counts as a win
IsWin_OrTie(max_time, record_distance, t) ==
    (max_time - t) * t >= record_distance

\* lines 18-22: holding for t wins the race
IsWin(max_time, record_distance, t) ==
    LET speed == t
        remaining_time == max_time - t
        dist == remaining_time * speed
    IN dist > record_distance

\* The input of tests::test_example_input (lines 62-64).
Example06 ==
    [times |-> << <<"7">>, <<"1", "5">>, <<"3", "0">> >>,
     distances |-> << <<"9">>, <<"4", "0">>, <<"2", "0", "0">> >>]

Inputs06 ==
    {Example06}
    \cup {[times |-> ts, distances |-> ds] :
            ts \in SeqsUpTo({<<"0">>, <<"2">>, <<"7">>}, MaxRaces) \ {<<>>},
            ds \in SeqsUpTo({<<"0">>, <<"9">>}, MaxRaces) \ {<<>>}}

Start06 ==
    /\ d06_input \in Inputs06
    /\ d06_call \in {"part1", "part2"}
    /\ d06_pc = "parse"
    /\ d06_rounds = <<>>
    /\ d06_race = <<>>
    /\ d06_t = 0
    /\ d06_wins = 0
    /\ d06_product = 1
    /\ d06_out = Pending

\* part1 parses the text; part2 first removes the blanks (line 53)
Parse06 ==
    /\ d06_pc = "parse"
    /\ LET text == IF d06_call = "part2"
                   THEN Replace(Text06(d06_input), <<" ">>, <<>>)
                   ELSE Text06(d06_input)
           rounds == Rounds06(text)
       IN IF rounds.panic
          THEN /\ d06_out' = Pan
               /\ d06_pc' = "done"
               /\ UNCHANGED d06_rounds
          ELSE /\ d06_rounds' = rounds.val
               /\ d06_pc' = "next"
               /\ UNCHANGED d06_out
    /\ UNCHANGED <<d06_input, d06_call, d06_race, d06_t, d06_wins, d06_product>>

\* ways_to_win is called on the next round (lines 13-14)
EnterWaysToWin ==
    /\ d06_pc = "next"
    /\ d06_rounds # <<>>
    /\ d06_race' = Head(d06_rounds)
    /\ d06_rounds' = Tail(d06_rounds)
    /\ d06_t' = 0
    /\ d06_wins' = 0
    /\ d06_pc' = "loop"
    /\ UNCHANGED <<d06_input, d06_call, d06_product, d06_out>>

\* one pass of `for t in 0..max_time` (lines 17-25)
WaysToWinStep ==
    /\ d06_pc = "loop"
    /\ d06_t < d06_race[1]
    /\ d06_wins' = IF IsWin(d06_race[1], d06_race[2], d06_t)
                   THEN d06_wins + 1 ELSE d06_wins
    /\ d06_t' = d06_t + 1
    /\ UNCHANGED <<d06_input, d06_call, d06_pc, d06_rounds, d06_race, d06_product, d06_out>>

\* ways_to_win returns (line 27); product() multiplies the count in
LeaveWaysToWin ==
    /\ d06_pc = "loop"
    /\ d06_t >= d06_race[1]
    /\ d06_product' = d06_product * d06_wins
    /\ d06_pc' = "next"
    /\ UNCHANGED <<d06_input, d06_call, d06_rounds, d06_race, d06_t, d06_wins, d06_out>>

\* line 48: the product of all counts
Return06 ==
    /\ d06_pc = "next"
    /\ d06_rounds = <<>>
    /\ d06_out' = Ret(d06_product)
    /\ d06_pc' = "done"
    /\ UNCHANGED <<d06_input, d06_call, d06_rounds, d06_race, d06_t, d06_wins, d06_product>>

Init06 == Start06 /\ IdleAllBut({6})

Next06 ==
    \/ Parse06 /\ UnchangedAllBut({6})
    \/ EnterWaysToWin /\ UnchangedAllBut({6})
    \/ WaysToWinStep /\ UnchangedAllBut({6})
    \/ LeaveWaysToWin /\ UnchangedAllBut({6})
    \/ Return06 /\ UnchangedAllBut({6})

Spec06 == Init06 /\ [][Next06]_vars

\* ---- reference notions for the claim about day 6 ----
\* the number of hold times t, 0 <= t < T, with (T - t) * t > D
RefWays(T, D) == Cardinality({t \in 0..(T - 1) : (T - t) * t > D})

RECURSIVE ConcatTokens(_)
ConcatTokens(tokens) ==
    IF tokens = <<>> THEN <<>> ELSE Head(tokens) \o ConcatTokens(Tail(tokens))

\* the races the claim speaks of: for part1 the k-th time with the k-th
\* distance, for part2 the one race of the concatenated digits
RefRaces(input, call) ==
    IF call = "part2"
    THEN << <<DecimalFrom(ConcatTokens(input.times), 0),
              DecimalFrom(ConcatTokens(input.distances), 0)>> >>
    ELSE [k \in 1..Min(Len(input.times), Len(input.distances)) |->
            <<DecimalFrom(input.times[k], 0), DecimalFrom(input.distances[k], 0)>>]

\* C8: ways_to_win returns the number of hold times that beat the record;
\* part1 returns the product of the counts of all races, part2 the count
\* of the race of the concatenated digits; 288 and 71503 on the example.
C8_WaysToWin ==
    /\ (d06_pc = "loop" /\ d06_t >= d06_race[1]) =>
          d06_wins = RefWays(d06_race[1], d06_race[2])
    /\ d06_pc = "done" =>
          /\ d06_out.st = "returned"
          /\ LET races == RefRaces(d06_input, d06_call)
             IN d06_out.val = ProdSeq([k \in DOMAIN races |->
                                         RefWays(races[k][1], races[k][2])])
          /\ d06_input = Example06 =>
                d06_out.val = IF d06_call = "part1" THEN 288 ELSE 71503

\* C8 witness: part2 returned 71503 on the example
C8_Witness ==
    /\ d06_pc = "done"
    /\ d06_input = Example06
    /\ d06_call = "part2"
    /\ d06_out = Ret(71503)

(***************************************************************************)
(* Day 14: tilting the platform.                                           *)
(***************************************************************************)
\* Height and width of the generated platforms.
Height14 == 3
Width14 == 3

\* The number of spin cycles of part2 (line 122).
Cycles14 == 1000000000

FLOOR == "."
OBSTACLE == "#"
ROCK == "O"

\* lines 30-32: the rows of the map, each line trimmed
parse14(input) ==
    LET pieces == SplitNewline(input)
    IN [y \in DOMAIN pieces |-> Trim(pieces[y])]

\* One pass of a move_* function, in place.  The outer loop takes the lines
\* (rows for up and down, columns for left and right) one after the other, in
\* `order`; the inner loop visits the cells of one line, and as a cell only
\* touches itself and its neighbour (dy, dx) in the next line, the passes of
\* the inner loop do not touch each other's cells and are taken at once.
\* Taking: the cells of the line that are floor and have a rock to take.
Taking(map, line, dy, dx) ==
    {c \in (IF dx = 0 THEN {<<line, x>> : x \in DOMAIN map[line]}
                      ELSE {<<y, line>> : y \in DOMAIN map}) :
        map[c[1]][c[2]] = FLOOR /\ map[c[1] + dy][c[2] + dx] = ROCK}

\* The map after the cells of `taking` took the rocks of their neighbours.
TakeRocks(map, taking, dy, dx) ==
    LET Row(y) == [x \in DOMAIN map[y] |->
                     IF <<y, x>> \in taking THEN ROCK
                     ELSE IF <<y - dy, x - dx>> \in taking THEN FLOOR
                     ELSE map[y][x]]
        rows == [y \in DOMAIN map |-> SubSeq(Row(y), 1, Len(map[y]))]
    IN SubSeq(rows, 1, Len(map))

RECURSIVE MovePass(_, _, _, _, _, _)
MovePass(map, order, dy, dx, k, moved) ==
    IF k > Len(order) THEN [map |-> map, moved |-> moved]
    ELSE MovePass(TakeRocks(map, Taking(map, order[k], dy, dx), dy, dx), order, dy, dx, k + 1,
                  moved \/ Taking(map, order[k], dy, dx) # {})

\* lines 34-46: y in 0..len-1
move_up(map) ==
    MovePass(map, [k \in 1..(Len(map) - 1) |-> k], 1, 0, 1, FALSE)

\* lines 48-60: y in (1..len).rev()
move_down(map) ==
    MovePass(map, [k \in 1..(Len(map) - 1) |-> Len(map) + 1 - k], -1, 0, 1, FALSE)

\* lines 63-75: x in 0..width-1
move_left(map) ==
    MovePass(map, [k \in 1..(Len(map[1]) - 1) |-> k], 0, 1, 1, FALSE)

\* lines 78-90: x in (1..width).rev()
move_right(map) ==
    MovePass(map, [k \in 1..(Len(map[1]) - 1) |-> Len(map[1]) + 1 - k], 0, -1, 1, FALSE)

\* `while move_up(&mut map) {}` and its three siblings
RECURSIVE WhileMove(_, _)
WhileMove(dir, map) ==
    LET r == CASE dir = "up" -> move_up(map)
               [] dir = "left" -> move_left(map)
               [] dir = "down" -> move_down(map)
               [] dir = "right" -> move_right(map)
    IN IF r.moved THEN WhileMove(dir, r.map) ELSE r.map

\* lines 123-126: one spin cycle
SpinCycle(map) ==
    WhileMove("right", WhileMove("down", WhileMove("left", WhileMove("up", map))))

\* lines 93-99
weight(map) ==
    LET height == Len(map)
    IN SumSeq([y \in DOMAIN map |->
                 (height - (y - 1)) * Cardinality({x \in DOMAIN map[y] : map[y][x] = ROCK})])

\* The input of tests::test_example_input (lines 154-164).
Example14 ==
    <<"O", ".", ".", ".", ".", "#", ".", ".", ".", ".", "\n", " ", " ", " ",
      " ", " ", " ", " ", " ", "O", ".", "O", "O", "#", ".", ".", ".", ".",
      "#", "\n", " ", " ", " ", " ", " ", " ", " ", " ", ".", ".", ".", ".",
      ".", "#", "#", ".", ".", ".", "\n", " ", " ", " ", " ", " ", " ", " ",
      " ", "O", "O", ".", "#", "O", ".", ".", ".", ".", "O", "\n", " ", " ",
      " ", " ", " ", " ", " ", " ", ".", "O", ".", ".", ".", ".", ".", "O",
      "#", ".", "\n", " ", " ", " ", " ", " ", " ", " ", " ", "O", ".", "#",
      ".", ".", "O", ".", "#", ".", "#", "\n", " ", " ", " ", " ", " ", " ",
      " ", " ", ".", ".", "O", ".", ".", "#", "O", ".", ".", "O", "\n", " ",
      " ", " ", " ", " ", " ", " ", " ", ".", ".", ".", ".", ".", ".", ".",
      "O", ".", ".", "\n", " ", " ", " ", " ", " ", " ", " ", " ", "#", ".",
      ".", ".", ".", "#", "#", "#", ".", ".", "\n", " ", " ", " ", " ", " ",
      " ", " ", " ", "#", "O", "O", ".", ".", "#", ".", ".", ".", ".">>

\* The text of a platform: its rows, the later ones indented
RECURSIVE Text14(_)
Text14(rows) ==
    IF Len(rows) = 1 THEN rows[1]
    ELSE rows[1] \o <<"\n", " ", " ">> \o Text14(Tail(rows))

Inputs14 ==
    {Example14}
    \cup {Text14(rows) : rows \in [1..Height14 -> [1..Width14 -> {FLOOR, OBSTACLE, ROCK}]]}

Start14 ==
    /\ d14_input \in Inputs14
    /\ d14_call \in {"part1", "part2"}
    /\ d14_pc = "start"
    /\ d14_map = <<>>
    /\ d14_seen_maps = <<>>
    /\ d14_i = 0
    /\ d14_has_skipped = FALSE
    /\ d14_out = Pending

\* lines 102-106: part1 tilts north to rest and weighs the map
Part1_14 ==
    /\ d14_pc = "start"
    /\ d14_call = "part1"
    /\ d14_map' = WhileMove("up", parse14(d14_input))
    /\ d14_out' = Ret(weight(d14_map'))
    /\ d14_pc' = "done"
    /\ UNCHANGED <<d14_input, d14_call, d14_seen_maps, d14_i, d14_has_skipped>>

\* lines 116-121: part2 up to its loop
EnterPart2_14 ==
    /\ d14_pc = "start"
    /\ d14_call = "part2"
    /\ d14_map' = parse14(d14_input)
    /\ d14_seen_maps' = <<>>
    /\ d14_i' = 0
    /\ d14_has_skipped' = FALSE
    /\ d14_pc' = "loop"
    /\ UNCHANGED <<d14_input, d14_call, d14_out>>

\* HashMap::insert: the entry of the key is replaced
Insert14(seen, map, i) ==
    [m \in DOMAIN seen \cup {map} |-> IF m = map THEN i ELSE seen[m]]

\* lines 122-142: one pass of `while i < 1_000_000_000`
SpinIteration ==
    /\ d14_pc = "loop"
    /\ d14_i < Cycles14
    /\ LET map == SpinCycle(d14_map)
           detected == ~d14_has_skipped /\ map \in DOMAIN d14_seen_maps
           period == d14_i - d14_seen_maps[map]
           skip == (Cycles14 - d14_i) \div period
           i == IF detected THEN d14_i + skip * period ELSE d14_i
       IN /\ d14_map' = map
          /\ d14_has_skipped' = (d14_has_skipped \/ detected)
          /\ d14_seen_maps' = Insert14(d14_seen_maps, map, i)
          /\ d14_i' = i + 1
    /\ UNCHANGED <<d14_input, d14_call, d14_pc, d14_out>>

\* line 144: the loop is left and the map is weighed
Return14 ==
    /\ d14_pc = "loop"
    /\ d14_i >= Cycles14
    /\ d14_out' = Ret(weight(d14_map))
    /\ d14_pc' = "done"
    /\ UNCHANGED <<d14_input, d14_call, d14_map, d14_seen_maps, d14_i, d14_has_skipped>>

Init14 == Start14 /\ IdleAllBut({14})

Next14 ==
    \/ Part1_14 /\ UnchangedAllBut({14})
    \/ EnterPart2_14 /\ UnchangedAllBut({14})
    \/ SpinIteration /\ UnchangedAllBut({14})
    \/ Return14 /\ UnchangedAllBut({14})

Spec14 == Init14 /\ [][Next14]_vars

\* ---- reference notions for the claim about day 14 ----
\* The map after n spin cycles, every cycle simulated in turn: hist holds
\* the maps after 0, 1, ... cycles.  Once the next map equals the one after
\* `start` cycles, the maps repeat from there for ever with the period found,
\* and the map after n cycles is the one at the same place of the period.
RECURSIVE RefSpin(_, _)
RefSpin(hist, n) ==
    IF Len(hist) - 1 = n THEN hist[n + 1]
    ELSE LET next == SpinCycle(hist[Len(hist)])
         IN IF \E j \in DOMAIN hist : hist[j] = next
            THEN LET start == (CHOOSE j \in DOMAIN hist : hist[j] = next) - 1
                     period == Len(hist) - start
                 IN hist[start + ((n - start) % period) + 1]
            ELSE RefSpin(Append(hist, next), n)

AfterCycles(map, n) == RefSpin(<<map>>, n)

\* C9 (as stated): part2 ends in the map that simulating all 1,000,000,000
\* spin cycles ends in, and returns its load, at whatever index the
\* repetition is detected and whatever the period is.
C9_ShortcutEqualsFullSimulation ==
    (d14_pc = "done" /\ d14_call = "part2") =>
        LET final == AfterCycles(parse14(d14_input), Cycles14)
        IN /\ d14_map = final
           /\ d14_out = Ret(weight(final))

(***************************************************************************)
(* Day 17: the cheapest path with bounded straight runs.                   *)
(***************************************************************************)
\* Largest width of the generated one-row maps.
MaxWidth17 == 5

NEIGHBOR_DIRECTIONS == << <<0, -1>>, <<0, 1>>, <<-1, 0>>, <<1, 0>> >>

\* lines 41-47: the digits of every trimmed line; Panic on another character
parse_input(input) ==
    LET lines == Lines(input)
    IN IF \E y \in DOMAIN lines : \E x \in DOMAIN Trim(lines[y]) : ~IsDigit(Trim(lines[y])[x])
       THEN Panic
       ELSE Ok([y \in DOMAIN lines |->
                  [x \in DOMAIN Trim(lines[y]) |-> DigitValue(Trim(lines[y])[x])]])

\* Node::default() (lines 32-38, 71)
DefaultNode ==
    [pos |-> <<0, 0>>, previous_index |-> None, same_dir_count |-> 0, loss |-> 0]

\* lines 142-149: the bounds part1 and part2 hand to solve
min_straight(call) == IF call = "part1" THEN 0 ELSE 4

max_straight(call) == IF call = "part1" THEN 3 ELSE 10

\* map[p.1 as usize][p.0 as usize]
MapAt(map, pos) == map[pos[2] + 1][pos[1] + 1]

\* line 69
is_in_map(map, pos) ==
    /\ pos[1] >= 0 /\ pos[2] >= 0
    /\ pos[1] < Len(map[1]) /\ pos[2] < Len(map)

\* line 66
Goal17(map) == <<Len(map[1]) - 1, Len(map) - 1>>

\* line 80: min_by_key gives the first node of the lowest loss
MinLossIndex(open) ==
    CHOOSE k \in DOMAIN open :
        /\ \A j \in DOMAIN open : open[k].loss <= open[j].loss
        /\ \A j \in 1..(k - 1) : open[j].loss > open[k].loss

\* Vec::remove
RemoveAt(q, k) == SubSeq(q, 1, k - 1) \o SubSeq(q, k + 1, Len(q))

\* lines 50-60
RECURSIVE reconstruct_path(_, _, _)
reconstruct_path(cursor, closed, path) ==
    IF cursor.previous_index = None THEN path
    ELSE LET previous == closed[cursor.previous_index[1] + 1]
         IN reconstruct_path(previous, closed, <<previous.pos>> \o path)

\* line 87
IsGoal(map, node, min) ==
    node.pos = Goal17(map) /\ node.same_dir_count >= min - 1

\* lines 95-118: the neighbours of node in the directions k..4; gives the
\* open list and the visited set after the loop
RECURSIVE Neighbours(_, _, _, _, _, _, _, _)
Neighbours(map, node, node_index_in_closed, closed, min, max, k, acc) ==
    IF k > Len(NEIGHBOR_DIRECTIONS) THEN acc
    ELSE
      LET direction == NEIGHBOR_DIRECTIONS[k]
          previous_pos == IF node.previous_index = None THEN None
                          ELSE Some(closed[node.previous_index[1] + 1].pos)
          previous_dir == IF previous_pos = None THEN None
                          ELSE Some(<<node.pos[1] - previous_pos[1][1],
                                      node.pos[2] - previous_pos[1][2]>>)
          pos == <<node.pos[1] + direction[1], node.pos[2] + direction[2]>>
          straight == Some(direction) = previous_dir \/ previous_dir = None
          next_node == [pos |-> pos,
                        previous_index |-> Some(node_index_in_closed),
                        same_dir_count |-> IF straight THEN node.same_dir_count + 1 ELSE 1,
                        loss |-> node.loss + MapAt(map, node.pos)]
          entry == <<pos, Some(node.pos), next_node.same_dir_count>>
          ok == /\ is_in_map(map, pos)
                /\ Some(pos) # previous_pos
                /\ (node.same_dir_count >= min \/ straight)
                /\ next_node.same_dir_count <= max
                /\ entry \notin acc.visited
      IN Neighbours(map, node, node_index_in_closed, closed, min, max, k + 1,
                    IF ok THEN [open |-> Append(acc.open, next_node),
                                visited |-> acc.visited \cup {entry}]
                    ELSE acc)

\* The input of tests::test_example_input (lines 157-169).
Example17 ==
    <<"2", "4", "1", "3", "4", "3", "2", "3", "1", "1", "3", "2", "3", "\n",
      " ", " ", " ", " ", " ", " ", " ", " ", " ", " ", " ", " ", "3", "2",
      "1", "5", "4", "5", "3", "5", "3", "5", "6", "2", "3", "\n", " ", " ",
      " ", " ", " ", " ", " ", " ", " ", " ", " ", " ", "3", "2", "5", "5",
      "2", "4", "5", "6", "5", "4", "2", "5", "4", "\n", " ", " ", " ", " ",
      " ", " ", " ", " ", " ", " ", " ", " ", "3", "4", "4", "6", "5", "8",
      "5", "8", "4", "5", "4", "5", "2", "\n", " ", " ", " ", " ", " ", " ",
      " ", " ", " ", " ", " ", " ", "4", "5", "4", "6", "6", "5", "7", "8",
      "6", "7", "5", "3", "6", "\n", " ", " ", " ", " ", " ", " ", " ", " ",
      " ", " ", " ", " ", "1", "4", "3", "8", "5", "9", "8", "7", "9", "8",
      "4", "5", "4", "\n", " ", " ", " ", " ", " ", " ", " ", " ", " ", " ",
      " ", " ", "4", "4", "5", "7", "8", "7", "6", "9", "8", "7", "7", "6",
      "6", "\n", " ", " ", " ", " ", " ", " ", " ", " ", " ", " ", " ", " ",
      "3", "6", "3", "7", "8", "7", "7", "9", "7", "9", "6", "5", "3", "\n",
      " ", " ", " ", " ", " ", " ", " ", " ", " ", " ", " ", " ", "4", "6",
      "5", "4", "9", "6", "7", "9", "8", "6", "8", "8", "7", "\n", " ", " ",
      " ", " ", " ", " ", " ", " ", " ", " ", " ", " ", "4", "5", "6", "4",
      "6", "7", "9", "9", "8", "6", "4", "5", "3", "\n", " ", " ", " ", " ",
      " ", " ", " ", " ", " ", " ", " ", " ", "1", "2", "2", "4", "6", "8",
      "6", "8", "6", "5", "5", "6", "3", "\n", " ", " ", " ", " ", " ", " ",
      " ", " ", " ", " ", " ", " ", "2", "5", "4", "6", "5", "4", "8", "8",
      "8", "7", "7", "3", "5", "\n", " ", " ", " ", " ", " ", " ", " ", " ",
      " ", " ", " ", " ", "4", "3", "2", "2", "6", "7", "4", "6", "5", "5",
      "5", "3", "3">>

\* A map on which the cheap way to the goal ends with three steps east.
Detour17 ==
    <<"1", "1", "1", "1", "1", "1", "1", "9", "\n", " ", " ", " ", " ", " ",
      " ", " ", " ", " ", " ", " ", " ", "9", "9", "9", "9", "1", "9", "9",
      "5", "\n", " ", " ", " ", " ", " ", " ", " ", " ", " ", " ", " ", " ",
      "9", "9", "9", "9", "1", "9", "9", "5", "\n", " ", " ", " ", " ", " ",
      " ", " ", " ", " ", " ", " ", " ", "9", "9", "9", "9", "1", "9", "9",
      "5", "\n", " ", " ", " ", " ", " ", " ", " ", " ", " ", " ", " ", " ",
      "9", "9", "9", "9", "1", "1", "1", "1">>

\* One-row maps of ones.
RowOfOnes(w) == [x \in 1..w |-> "1"]

Inputs17 == {Example17, Detour17} \cup {RowOfOnes(w) : w \in 1..MaxWidth17}

Start17 ==
    /\ d17_input \in Inputs17
    /\ d17_call \in {"part1", "part2"}
    /\ d17_pc = "start"
    /\ d17_map = <<>>
    /\ d17_open = <<>>
    /\ d17_closed = <<>>
    /\ d17_visited = {}
    /\ d17_path = <<>>
    /\ d17_out = Pending

\* lines 126-130 and 64-76: solve parses the map, find_path sets up its lists
EnterFindPath ==
    /\ d17_pc = "start"
    /\ LET parsed == parse_input(d17_input)
       IN IF parsed.panic
          THEN /\ d17_out' = Pan
               /\ d17_pc' = "done"
               /\ UNCHANGED <<d17_map, d17_open>>
          ELSE /\ d17_map' = parsed.val
               /\ d17_open' = <<DefaultNode>>
               /\ d17_pc' = "loop"
               /\ UNCHANGED d17_out
    /\ UNCHANGED <<d17_input, d17_call, d17_closed, d17_visited, d17_path>>

\* lines 78-120: one pass of the loop of find_path; unwrap() panics when
\* the open list is empty
Explore ==
    /\ d17_pc = "loop"
    /\ IF d17_open = <<>>
       THEN /\ d17_out' = Pan
            /\ d17_pc' = "done"
            /\ UNCHANGED <<d17_open, d17_closed, d17_visited, d17_path>>
       ELSE LET node_index == MinLossIndex(d17_open)
                node == d17_open[node_index]
                open == RemoveAt(d17_open, node_index)
                closed == Append(d17_closed, node)
                node_index_in_closed == Len(closed) - 1
            IN /\ d17_closed' = closed
               /\ IF IsGoal(d17_map, node, min_straight(d17_call))
                  THEN /\ d17_path' = reconstruct_path(node, closed, <<node.pos>>)
                       /\ d17_pc' = "found"
                       /\ d17_open' = open
                       /\ UNCHANGED d17_visited
                  ELSE LET after == Neighbours(d17_map, node, node_index_in_closed, closed,
                                               min_straight(d17_call), max_straight(d17_call), 1,
                                               [open |-> open, visited |-> d17_visited])
                       IN /\ d17_open' = after.open
                          /\ d17_visited' = after.visited
                          /\ UNCHANGED <<d17_path, d17_pc>>
               /\ UNCHANGED d17_out
    /\ UNCHANGED <<d17_input, d17_call, d17_map>>

\* lines 131-139: the losses of the path without its start, summed
Return17 ==
    /\ d17_pc = "found"
    /\ d17_out' = Ret(SumSeq([k \in 1..(Len(d17_path) - 1) |-> MapAt(d17_map, d17_path[k + 1])]))
    /\ d17_pc' = "done"
    /\ UNCHANGED <<d17_input, d17_call, d17_map, d17_open, d17_closed, d17_visited, d17_path>>

Init17 == Start17 /\ IdleAllBut({17})

Next17 ==
    \/ EnterFindPath /\ UnchangedAllBut({17})
    \/ Explore /\ UnchangedAllBut({17})
    \/ Return17 /\ UnchangedAllBut({17})

Spec17 == Init17 /\ [][Next17]_vars

\* ---- reference notions for the claim about day 17 ----
\* the lengths of the straight runs of a path, in order
RECURSIVE RunsFrom(_, _, _)
RunsFrom(path, k, runs) ==
    IF k >= Len(path) THEN runs
    ELSE LET dir == <<path[k + 1][1] - path[k][1], path[k + 1][2] - path[k][2]>>
             same == k > 1 /\ dir = <<path[k][1] - path[k - 1][1], path[k][2] - path[k - 1][2]>>
         IN RunsFrom(path, k + 1,
                     IF same THEN [runs EXCEPT ![Len(runs)] = @ + 1] ELSE Append(runs, 1))

Runs(path) == RunsFrom(path, 1, <<>>)

\* C10 (as stated): the path whose heat loss part2 returns consists only of
\* straight runs of 4 to 10 steps, the final run included.
C10_EveryRunFourToTen ==
    (d17_call = "part2" /\ d17_pc = "done" /\ d17_out.st = "returned") =>
        \A k \in DOMAIN Runs(d17_path) : Runs(d17_path)[k] >= 4 /\ Runs(d17_path)[k] <= 10

(***************************************************************************)
(* Day 19: workflows over parts and over ranges of parts.                  *)
(***************************************************************************)
\* Largest rating of a part: the 4000 of part2 (line 281), scaled down.
MaxRating == 3

Properties == {"x", "m", "a", "s"}

\* lines 93-115: a rule "x<2:a" given as its four pieces
parse_rule(item) ==
    [property |-> CASE item[1] = "x" -> "X" [] item[1] = "m" -> "M"
                    [] item[1] = "a" -> "A" [] item[1] = "s" -> "S",
     op |-> CASE item[2] = "<" -> "Lt" [] item[2] = ">" -> "Gt",
     value |-> ParseI64(item[3])[1],
     send |-> item[4]]

\* lines 83-117: a line "in{x<2:a,R}" given as the name and the items
\* between the commas; the last item is the default
parse_workflow(line) ==
    LET rule_items == SubSeq(line.items, 1, Len(line.items) - 1)
    IN [name |-> line.name,
        default |-> line.items[Len(line.items)],
        rules |-> [k \in DOMAIN rule_items |-> parse_rule(rule_items[k])]]

\* lines 120-136: a line "{x=1,m=2,a=3,s=1}" given as its pairs
RECURSIVE parse_part(_, _)
parse_part(items, part) ==
    IF items = <<>> THEN part
    ELSE parse_part(Tail(items),
                    [part EXCEPT ![Head(items)[1]] = ParseI64(Head(items)[2])[1]])

\* lines 139-150: the program (a later workflow of the same name replaces
\* an earlier one) and the parts
parse19(input) ==
    LET workflows == [k \in DOMAIN input.workflows |-> parse_workflow(input.workflows[k])]
        names == {workflows[k].name : k \in DOMAIN workflows}
        Last(n) == CHOOSE k \in DOMAIN workflows :
                      /\ workflows[k].name = n
                      /\ \A j \in DOMAIN workflows : workflows[j].name = n => j <= k
    IN [program |-> [n \in names |-> workflows[Last(n)]],
        parts |-> [k \in DOMAIN input.parts |->
                     parse_part(input.parts[k], [x |-> 0, m |-> 0, a |-> 0, s |-> 0])]]

\* lines 43-50 and 51-58
Get19(part, property) ==
    CASE property = "X" -> part.x [] property = "M" -> part.m
      [] property = "A" -> part.a [] property = "S" -> part.s

Set19(part, property, value) ==
    CASE property = "X" -> [part EXCEPT !.x = value]
      [] property = "M" -> [part EXCEPT !.m = value]
      [] property = "A" -> [part EXCEPT !.a = value]
      [] property = "S" -> [part EXCEPT !.s = value]

\* lines 153-158
part_fulfills_rule(part, rule) ==
    IF rule.op = "Lt" THEN Get19(part, rule.property) < rule.value
    ELSE Get19(part, rule.property) > rule.value

\* lines 163-176: the loop of process_part, from the workflow `name` on
RECURSIVE ProcessFrom(_, _, _)
ProcessFrom(part, program, name) ==
    LET workflow == program[name]
        matching == {k \in DOMAIN workflow.rules : part_fulfills_rule(part, workflow.rules[k])}
        send_to == IF matching = {} THEN workflow.default
                   ELSE workflow.rules[CHOOSE k \in matching : \A j \in matching : k <= j].send
    IN CASE send_to = "R" -> FALSE
         [] send_to = "A" -> TRUE
         [] OTHER -> ProcessFrom(part, program, send_to)

\* lines 161-177
process_part(part, program) == ProcessFrom(part, program, "in")

\* lines 181-187
part1_19(input) ==
    LET parsed == parse19(input)
        accepted == SelectSeq(parsed.parts, LAMBDA part : process_part(part, parsed.program))
    IN SumSeq([k \in DOMAIN accepted |->
                 accepted[k].x + accepted[k].m + accepted[k].a + accepted[k].s])

\* lines 196-222: the subrange that fulfils the rule and the one that does not
get_sub_range_for_rule(range, rule) ==
    LET accepting_range ==
            IF rule.op = "Lt"
            THEN [range EXCEPT !.max = Set19(range.max, rule.property, rule.value - 1)]
            ELSE [range EXCEPT !.min = Set19(range.min, rule.property, rule.value + 1)]
        rejected_range ==
            IF rule.op = "Lt"
            THEN [range EXCEPT !.min = Set19(range.min, rule.property, rule.value)]
            ELSE [range EXCEPT !.max = Set19(range.max, rule.property, rule.value)]
    IN IF Get19(accepting_range.min, rule.property) > Get19(accepting_range.max, rule.property)
       THEN <<None, Some(range)>>
       ELSE IF accepting_range = range
       THEN <<Some(range), None>>
       ELSE <<Some(accepting_range), Some(rejected_range)>>

RECURSIVE get_range_combinations(_, _, _)
RECURSIVE RulesLoop19(_, _, _, _, _)

\* lines 250-272: the loop over the rules from the k-th rule on, and the
\* default after it
RulesLoop19(range, workflow, k, accepted_combinations, program) ==
    IF k > Len(workflow.rules)
    THEN accepted_combinations + get_range_combinations(range, workflow.default, program)
    ELSE LET rule == workflow.rules[k]
             split == get_sub_range_for_rule(range, rule)
             accepted == IF split[1] # None
                         THEN accepted_combinations
                              + get_range_combinations(split[1][1], rule.send, program)
                         ELSE accepted_combinations
         IN IF split[2] # None
            THEN RulesLoop19(split[2][1], workflow, k + 1, accepted, program)
            ELSE accepted

\* lines 225-273
get_range_combinations(range, workflow_name, program) ==
    IF workflow_name = "R" THEN 0
    ELSE IF workflow_name = "A"
    THEN (range.max.x - range.min.x + 1) * (range.max.m - range.min.m + 1)
         * (range.max.a - range.min.a + 1) * (range.max.s - range.min.s + 1)
    ELSE RulesLoop19(range, program[workflow_name], 1, 0, program)

\* lines 277-284
part2_19(input) ==
    LET initial_range == [min |-> [x |-> 1, m |-> 1, a |-> 1, s |-> 1],
                          max |-> [x |-> MaxRating, m |-> MaxRating,
                                   a |-> MaxRating, s |-> MaxRating]]
    IN get_range_combinations(initial_range, "in", parse19(input).program)

\* The texts: "in{<rule>,<default>}", "a{<rule>,<default>}", an empty line
\* and one part.  The rules compare x or s with a rating.
DigitTok(n) == <<Digits[n + 1]>>

RuleItems19(sends) ==
    {<<p, o, DigitTok(v), t>> : p \in {"x", "s"}, o \in {"<", ">"}, v \in 1..MaxRating, t \in sends}

PartLines19 ==
    {<< <<"x", DigitTok(1)>>, <<"m", DigitTok(1)>>, <<"a", DigitTok(1)>>, <<"s", DigitTok(1)>> >>,
     << <<"x", DigitTok(2)>>, <<"m", DigitTok(1)>>, <<"a", DigitTok(3)>>, <<"s", DigitTok(MaxRating)>> >>}

Inputs19 ==
    {[workflows |-> << [name |-> "in", items |-> <<r1, d1>>],
                       [name |-> "a", items |-> <<r2, d2>>] >>,
      parts |-> <<p>>] :
        r1 \in RuleItems19({"A", "R", "a"}), d1 \in {"A", "R", "a"},
        r2 \in RuleItems19({"A", "R"}), d2 \in {"A", "R"}, p \in PartLines19}

Start19 ==
    /\ d19_input \in Inputs19
    /\ d19_out = NotStarted

Run19Part1 ==
    /\ d19_out.part1 = Pending
    /\ d19_out' = [d19_out EXCEPT !.part1 = Ret(part1_19(d19_input))]
    /\ UNCHANGED d19_input

Run19Part2 ==
    /\ d19_out.part1.st = "returned"
    /\ d19_out.part2 = Pending
    /\ d19_out' = [d19_out EXCEPT !.part2 = Ret(part2_19(d19_input))]
    /\ UNCHANGED d19_input

Init19 == Start19 /\ IdleAllBut({19})

Next19 ==
    \/ Run19Part1 /\ UnchangedAllBut({19})
    \/ Run19Part2 /\ UnchangedAllBut({19})

Spec19 == Init19 /\ [][Next19]_vars

\* ---- reference notions for the claim about day 19 ----
\* every part with all four ratings in 1..MaxRating
AllParts19 == [x : 1..MaxRating, m : 1..MaxRating, a : 1..MaxRating, s : 1..MaxRating]

AcceptedParts19(program) == {part \in AllParts19 : process_part(part, program)}

\* C11 (as stated): part2 returns the number of parts with every rating in
\* the range that process_part accepts, for every acyclic set of workflows.
C11_RangeCountEqualsPointwise ==
    d19_out.part2.st = "returned" =>
        d19_out.part2.val = Cardinality(AcceptedParts19(parse19(d19_input).program))

(***************************************************************************)
(* Day 9: extrapolating sequences.                                         *)
(***************************************************************************)
\* Largest number of values on a generated line.
MaxValues09 == 3

\* map_windows(|[&a, &b]| b - a): the differences of neighbours
Diffs09(values) == [k \in 1..(Len(values) - 1) |-> values[k + 1] - values[k]]

\* lines 14-24: the pair (value before the first, value after the last)
RECURSIVE extrapolate(_)
extrapolate(values) ==
    IF \A k \in DOMAIN values : values[k] = 0 THEN <<0, 0>>
    ELSE LET lr == extrapolate(SubSeq(Diffs09(values), 1, Len(values) - 1))
         IN <<values[1] - lr[1], values[Len(values)] + lr[2]>>

\* line 29: the numbers of a line; Panic when a word is no number
LineValues09(line) ==
    LET words == SplitWhitespace(line, <<>>, <<>>)
    IN IF \E k \in DOMAIN words : ParseI64(words[k]) = None THEN Panic
       ELSE Ok([k \in DOMAIN words |-> ParseI64(words[k])[1]])

\* lines 26-35: the sums of the first and of the second components
solution(input) ==
    LET lines == SplitNewline(input)
        values == [k \in DOMAIN lines |-> LineValues09(lines[k])]
    IN IF \E k \in DOMAIN values : values[k].panic THEN Panic
       ELSE LET pairs == [k \in DOMAIN values |-> extrapolate(values[k].val)]
            IN Ok(<<SumSeq([k \in DOMAIN pairs |-> pairs[k][1]]),
                    SumSeq([k \in DOMAIN pairs |-> pairs[k][2]])>>)

\* lines 37-39: solution(input).0
part1_09(input) ==
    LET s == solution(input) IN IF s.panic THEN Pan ELSE Ret(s.val[1])

\* lines 41-43: solution(input).1
part2_09(input) ==
    LET s == solution(input) IN IF s.panic THEN Pan ELSE Ret(s.val[2])

\* The text of some lines of words: the words of a line separated by a
\* blank, the later lines indented as in the test.
RECURSIVE JoinWords09(_)
JoinWords09(words) ==
    IF Len(words) = 1 THEN words[1]
    ELSE words[1] \o <<" ">> \o JoinWords09(Tail(words))

RECURSIVE Text09(_)
Text09(lines) ==
    IF Len(lines) = 1 THEN JoinWords09(lines[1])
    ELSE JoinWords09(lines[1]) \o <<"\n", " ", " ">> \o Text09(Tail(lines))

\* The input of tests::test_example_input (lines 51-54).
Example09 ==
    Text09(<< << <<"0">>, <<"3">>, <<"6">>, <<"9">>, <<"1", "2">>, <<"1", "5">> >>,
              << <<"1">>, <<"3">>, <<"6">>, <<"1", "0">>, <<"1", "5">>, <<"2", "1">> >>,
              << <<"1", "0">>, <<"1", "3">>, <<"1", "6">>, <<"2", "1">>, <<"3", "0">>, <<"4", "5">> >> >>)

Words09 == {<<"0">>, <<"1">>, <<"3">>, <<"-", "2">>}

Inputs09 ==
    {Example09}
    \cup {Text09(<<a>>) : a \in SeqsUpTo(Words09, MaxValues09) \ {<<>>}}
    \cup {Text09(<<a, b>>) : a \in SeqsUpTo(Words09, MaxValues09) \ {<<>>},
                             b \in SeqsUpTo(Words09, 1) \ {<<>>}}

Start09 ==
    /\ d09_input \in Inputs09
    /\ d09_out = NotStarted

Run09Part1 ==
    /\ d09_out.part1 = Pending
    /\ d09_out' = [d09_out EXCEPT !.part1 = part1_09(d09_input)]
    /\ UNCHANGED d09_input

Run09Part2 ==
    /\ d09_out.part1.st = "returned"
    /\ d09_out.part2 = Pending
    /\ d09_out' = [d09_out EXCEPT !.part2 = part2_09(d09_input)]
    /\ UNCHANGED d09_input

Init09 == Start09 /\ IdleAllBut({9})

Next09 ==
    \/ Run09Part1 /\ UnchangedAllBut({9})
    \/ Run09Part2 /\ UnchangedAllBut({9})

Spec09 == Init09 /\ [][Next09]_vars

\* ---- reference notions for the claim about day 9 ----
\* the next value of a sequence: its last value plus the next value of its
\* differences; the value before the first: the first value minus the one
\* before the first difference
RECURSIVE NextValue09(_)
NextValue09(values) ==
    IF \A k \in DOMAIN values : values[k] = 0 THEN 0
    ELSE values[Len(values)] + NextValue09(SubSeq(Diffs09(values), 1, Len(values) - 1))

RECURSIVE PreviousValue09(_)
PreviousValue09(values) ==
    IF \A k \in DOMAIN values : values[k] = 0 THEN 0
    ELSE values[1] - PreviousValue09(SubSeq(Diffs09(values), 1, Len(values) - 1))

Sequences09(input) ==
    LET lines == SplitNewline(input)
    IN [k \in DOMAIN lines |-> LineValues09(lines[k]).val]

\* C12 (as stated): part1 returns the sum of the next values (114 on the
\* example), part2 the sum of the values before the first (2 on the example).
C12_Part1ForwardPart2Backward ==
    LET seqs == Sequences09(d09_input)
    IN /\ d09_out.part1.st = "returned" =>
            /\ d09_out.part1.val = SumSeq([k \in DOMAIN seqs |-> NextValue09(seqs[k])])
            /\ d09_input = Example09 => d09_out.part1.val = 114
       /\ d09_out.part2.st = "returned" =>
            /\ d09_out.part2.val = SumSeq([k \in DOMAIN seqs |-> PreviousValue09(seqs[k])])
            /\ d09_input = Example09 => d09_out.part2.val = 2

\* On the example part1 has returned 2 and part2 has returned 114.
C12_ExampleSwapped ==
    /\ d09_input = Example09
    /\ d09_out.part1 = Ret(2)
    /\ d09_out.part2 = Ret(114)

(***************************************************************************)
(* Day 11: distances between galaxies in expanded space.                   *)
(***************************************************************************)
\* Width and height of the generated maps.
Width11 == 3
Height11 == 3

Abs(n) == IF n < 0 THEN -n ELSE n

\* lines 21-32: the positions <<x, y>> of the '#' symbols, line by line
RECURSIVE GalaxiesOfLine(_, _, _)
GalaxiesOfLine(line, y, x) ==
    IF x > Len(line) THEN <<>>
    ELSE (IF line[x] = "#" THEN << <<x - 1, y>> >> ELSE <<>>)
         \o GalaxiesOfLine(line, y, x + 1)

RECURSIVE GalaxiesFrom(_, _)
GalaxiesFrom(lines, k) ==
    IF k > Len(lines) THEN <<>>
    ELSE GalaxiesOfLine(Trim(lines[k]), k - 1, 1) \o GalaxiesFrom(lines, k + 1)

LargestOf(S) == CHOOSE m \in S : \A n \in S : n <= m

\* lines 19-38: the map and the largest x and y, folded from (0, 0)
parse11(input) ==
    LET map == GalaxiesFrom(SplitNewline(input), 1)
    IN [map |-> map,
        size |-> <<LargestOf({0} \cup {map[k][1] : k \in DOMAIN map}),
                   LargestOf({0} \cup {map[k][2] : k \in DOMAIN map})>>]

\* lines 41-43
insert_row(insert_y, insert_len, map) ==
    [k \in DOMAIN map |->
        <<map[k][1], IF map[k][2] > insert_y THEN map[k][2] + insert_len - 1 ELSE map[k][2]>>]

\* lines 46-48
insert_col(insert_x, insert_len, map) ==
    [k \in DOMAIN map |->
        <<IF map[k][1] > insert_x THEN map[k][1] + insert_len - 1 ELSE map[k][1], map[k][2]>>]

\* lines 67-70: the distances of all pairs
SumOfDistances(map) ==
    LET PairsFrom(i) == [j \in 1..(Len(map) - i) |->
                            Abs(map[i][1] - map[i + j][1]) + Abs(map[i][2] - map[i + j][2])]
    IN SumSeq([i \in DOMAIN map |-> SumSeq(PairsFrom(i))])

\* A line of the map with galaxies in the columns `cols`.
Row11(cols, width) == [x \in 1..width |-> IF (x - 1) \in cols THEN "#" ELSE "."]

\* The text of the lines, the later ones indented as in the test.
RECURSIVE Text11(_)
Text11(lines) ==
    IF Len(lines) = 1 THEN lines[1]
    ELSE lines[1] \o <<"\n", " ", " ">> \o Text11(Tail(lines))

\* The input of tests::test_example_input (lines 87-97).
Example11 ==
    Text11(<<Row11({3}, 10), Row11({7}, 10), Row11({0}, 10), Row11({}, 10),
             Row11({6}, 10), Row11({1}, 10), Row11({9}, 10), Row11({}, 10),
             Row11({7}, 10), Row11({0, 4}, 10)>>)

Rows11 == {Row11(cols, Width11) : cols \in SUBSET (0..(Width11 - 1))}

Inputs11 == {Example11} \cup {Text11(g) : g \in [1..Height11 -> Rows11]}

\* The expansion sizes of part1, part2 (scaled down to 10) and of the test.
Expansions11 == {1, 2, 10}

Start11 ==
    /\ d11_input \in Inputs11
    /\ d11_expansion \in Expansions11
    /\ d11_map = <<>>
    /\ d11_size = <<0, 0>>
    /\ d11_pc = "parse"
    /\ d11_i = 0
    /\ d11_out = Pending

\* line 51
Parse11 ==
    /\ d11_pc = "parse"
    /\ d11_map' = parse11(d11_input).map
    /\ d11_size' = parse11(d11_input).size
    /\ d11_i' = parse11(d11_input).size[2] - 1
    /\ d11_pc' = "rows"
    /\ UNCHANGED <<d11_input, d11_expansion, d11_out>>

\* lines 55-59: one iteration of the loop over the rows, high to low
ExpandRow ==
    /\ d11_pc = "rows"
    /\ d11_i >= 1
    /\ d11_map' = IF \E k \in DOMAIN d11_map : d11_map[k][2] = d11_i
                  THEN d11_map
                  ELSE insert_row(d11_i, d11_expansion, d11_map)
    /\ d11_i' = d11_i - 1
    /\ UNCHANGED <<d11_input, d11_expansion, d11_size, d11_pc, d11_out>>

\* line 59 to 60: the loop over the rows is over
RowsDone ==
    /\ d11_pc = "rows"
    /\ d11_i < 1
    /\ d11_pc' = "cols"
    /\ d11_i' = d11_size[1] - 1
    /\ UNCHANGED <<d11_input, d11_expansion, d11_map, d11_size, d11_out>>

\* lines 60-64: one iteration of the loop over the columns, high to low
ExpandCol ==
    /\ d11_pc = "cols"
    /\ d11_i >= 1
    /\ d11_map' = IF \E k \in DOMAIN d11_map : d11_map[k][1] = d11_i
                  THEN d11_map
                  ELSE insert_col(d11_i, d11_expansion, d11_map)
    /\ d11_i' = d11_i - 1
    /\ UNCHANGED <<d11_input, d11_expansion, d11_size, d11_pc, d11_out>>

\* lines 67-70: the loops are over, the sum is returned
Return11 ==
    /\ d11_pc = "cols"
    /\ d11_i < 1
    /\ d11_out' = Ret(SumOfDistances(d11_map))
    /\ d11_pc' = "done"
    /\ UNCHANGED <<d11_input, d11_expansion, d11_map, d11_size, d11_i>>

Init11 == Start11 /\ IdleAllBut({11})

Next11 ==
    \/ Parse11 /\ UnchangedAllBut({11})
    \/ ExpandRow /\ UnchangedAllBut({11})
    \/ RowsDone /\ UnchangedAllBut({11})
    \/ ExpandCol /\ UnchangedAllBut({11})
    \/ Return11 /\ UnchangedAllBut({11})

Spec11 == Init11 /\ [][Next11]_vars

\* C13 (as stated): on the example solve returns 374 with expansion_size 1
\* and 1030 with expansion_size 10.
C13_ExampleSums ==
    (d11_input = Example11 /\ d11_pc = "done") =>
        /\ d11_expansion = 1 => d11_out = Ret(374)
        /\ d11_expansion = 10 => d11_out = Ret(1030)

\* On the example solve has returned 292 with expansion_size 1.
C13_ExampleUnexpanded ==
    /\ d11_input = Example11
    /\ d11_expansion = 1
    /\ d11_out = Ret(292)

\* On the example solve returns 374 with expansion_size 2 and 1030 with 10.
C13_ExampleExpanded ==
    (d11_input = Example11 /\ d11_pc = "done") =>
        /\ d11_expansion = 2 => d11_out = Ret(374)
        /\ d11_expansion = 10 => d11_out = Ret(1030)

(***************************************************************************)
(* Day 20: pulse propagation, part 2.                                      *)
(***************************************************************************)
\* The largest number of flip-flops in a generated counter.
MaxBits20 == 4

\* The button presses after which the model stops following part2.
MaxPresses20 == 12

RECURSIVE gcd(_, _)
gcd(a, b) == IF b = 0 THEN a ELSE gcd(b, a % b)

\* num::integer::lcm
lcm(a, b) == IF a = 0 \/ b = 0 THEN 0 ELSE (a \div gcd(a, b)) * b

\* lines 233-236: the lcm of the values of a map, starting from 1
RECURSIVE LcmOfValues(_, _)
LcmOfValues(periods, names) ==
    IF names = {} THEN 1
    ELSE LET n == CHOOSE n \in names : TRUE
         IN lcm(LcmOfValues(periods, names \ {n}), periods[n])

\* HashMap::insert: the value of an existing key is replaced
MapInsert(map, key, value) ==
    [k \in DOMAIN map \cup {key} |-> IF k = key THEN value ELSE map[k]]

\* mutant: the value of an existing key is kept
KeepFirst(map, key, value) ==
    [k \in DOMAIN map \cup {key} |-> IF k \in DOMAIN map THEN map[k] ELSE value]

FlipFlopNames == <<"f1", "f2", "f3", "f4", "f5">>

\* A binary counter of n flip-flops, each of which also feeds the
\* conjunction in front of rx.
Counter20(n) ==
    << [symbol |-> "", name |-> "broadcaster", outputs |-> <<"f1">>] >>
    \o [k \in 1..n |->
          [symbol |-> "%", name |-> FlipFlopNames[k],
           outputs |-> IF k < n THEN <<FlipFlopNames[k + 1], "con">> ELSE <<"con">>]]
    \o << [symbol |-> "&", name |-> "con", outputs |-> <<"rx">>] >>

InverterNames == <<"i1", "i2", "i3", "i4", "i5">>

\* A binary counter of n flip-flops, each with an inverter between it and
\* the conjunction in front of rx.
Inverted20(n) ==
    << [symbol |-> "", name |-> "broadcaster", outputs |-> <<"f1">>] >>
    \o [k \in 1..n |->
          [symbol |-> "%", name |-> FlipFlopNames[k],
           outputs |-> IF k < n THEN <<FlipFlopNames[k + 1], InverterNames[k]>>
                       ELSE <<InverterNames[k]>>]]
    \o [k \in 1..n |-> [symbol |-> "&", name |-> InverterNames[k], outputs |-> <<"con">>]]
    \o << [symbol |-> "&", name |-> "con", outputs |-> <<"rx">>] >>

\* Two flip-flops pressed directly, behind them the conjunction or the
\* flip-flop in front of rx.
Pair20(symbol) ==
    << [symbol |-> "", name |-> "broadcaster", outputs |-> <<"f1", "f2">>],
       [symbol |-> "%", name |-> "f1", outputs |-> <<"con">>],
       [symbol |-> "%", name |-> "f2", outputs |-> <<"con">>],
       [symbol |-> symbol, name |-> "con", outputs |-> <<"rx">>] >>

\* No module sends to rx.
NoRx20 ==
    << [symbol |-> "", name |-> "broadcaster", outputs |-> <<"f1">>],
       [symbol |-> "%", name |-> "f1", outputs |-> <<"out">>] >>

Inputs20p2 ==
    {Counter20(n) : n \in 1..MaxBits20} \cup {Inverted20(n) : n \in 1..MaxBits20}
    \cup {Pair20("&"), Pair20("%"), NoRx20}

Start20p2 ==
    /\ \E lines \in Inputs20p2 : p20_circuit = circuit20(lines)
    /\ p20_rx = ""
    /\ p20_second = {}
    /\ p20_signals = <<>>
    /\ p20_i = 0
    /\ p20_periods = <<>>
    /\ p20_first = <<>>
    /\ p20_pc = "find"
    /\ p20_out = Pending

Senders(circuit, to) ==
    {n \in DOMAIN circuit : \E k \in DOMAIN circuit[n].outputs : circuit[n].outputs[k] = to}

\* lines 196-206: some module that sends to rx (the first one the HashMap
\* yields) and all the modules that send to it; unwrap panics without one
FindConjunctions ==
    /\ p20_pc = "find"
    /\ IF Senders(p20_circuit, "rx") = {}
       THEN /\ p20_out' = Pan
            /\ p20_pc' = "done"
            /\ UNCHANGED <<p20_rx, p20_second>>
       ELSE /\ \E n \in Senders(p20_circuit, "rx") :
                /\ p20_rx' = n
                /\ p20_second' = Senders(p20_circuit, n)
            /\ p20_pc' = "press"
            /\ UNCHANGED p20_out
    /\ UNCHANGED <<p20_circuit, p20_signals, p20_i, p20_periods, p20_first>>

\* lines 211-213: the next pass of `for i in 1..`
PressButton2 ==
    /\ p20_pc = "press"
    /\ p20_signals = <<>>
    /\ p20_i < MaxPresses20
    /\ p20_i' = p20_i + 1
    /\ p20_signals' = << [from |-> "button", to |-> "broadcaster", value |-> FALSE,
                          seq |-> 0] >>
    /\ UNCHANGED <<p20_circuit, p20_rx, p20_second, p20_periods, p20_first, p20_pc, p20_out>>

\* lines 214-242: one pass of `while let Some(signal) = signals.pop_front()`
ProcessSignal2 ==
    /\ p20_pc = "press"
    /\ p20_signals # <<>>
    /\ LET popped == PopSignal(p20_signals)
           signal == popped.signal
           r == process_signal(p20_circuit, signal)
           outputs == IF signal.to \in DOMAIN r.circuit
                      THEN r.circuit[signal.to].outputs ELSE <<>>
           records == /\ r.new_signal = Some(TRUE)
                      /\ outputs # <<>>
                      /\ signal.to \in p20_second
           periods == IF records THEN MapInsert(p20_periods, signal.to, p20_i)
                      ELSE p20_periods
       IN IF signal.to = "rx" /\ ~signal.value
          THEN /\ p20_out' = Ret(p20_i)
               /\ p20_pc' = "done"
               /\ p20_signals' = popped.rest
               /\ UNCHANGED <<p20_circuit, p20_periods, p20_first>>
          ELSE /\ p20_circuit' = r.circuit
               /\ p20_periods' = periods
               /\ p20_first' = IF records THEN KeepFirst(p20_first, signal.to, p20_i)
                               ELSE p20_first
               /\ p20_signals' =
                     IF r.new_signal = None THEN popped.rest
                     ELSE PushOutputs(popped.rest, signal.to, outputs, r.new_signal[1], 0)
               /\ IF records /\ Cardinality(DOMAIN periods) = Cardinality(p20_second)
                  THEN /\ p20_out' = Ret(LcmOfValues(periods, DOMAIN periods))
                       /\ p20_pc' = "done"
                  ELSE UNCHANGED <<p20_out, p20_pc>>
    /\ UNCHANGED <<p20_rx, p20_second, p20_i>>

Init20p2 == Start20p2 /\ IdleAllBut({202})

Next20p2 ==
    \/ FindConjunctions /\ UnchangedAllBut({202})
    \/ PressButton2 /\ UnchangedAllBut({202})
    \/ ProcessSignal2 /\ UnchangedAllBut({202})

Spec20p2 == Init20p2 /\ [][Next20p2]_vars

\* C14 (as stated): part2 returns the least common multiple of the presses
\* during which each module in front of the module before rx first sent a
\* high pulse; a later high pulse does not change the recorded period.
C14_LcmOfFirstHighPresses ==
    /\ \A n \in DOMAIN p20_periods : p20_periods[n] = p20_first[n]
    /\ (p20_out.st = "returned" /\ DOMAIN p20_first = p20_second) =>
            p20_out.val = LcmOfValues(p20_first, p20_second)

\* On the counter of three flip-flops part2 has returned 12: the lcm of
\* 3, 2 and 4, where the first high pulses come in the presses 1, 2 and 4.
C14_LaterPulseRecorded ==
    /\ Wiring(p20_circuit) = Wiring(circuit20(Counter20(3)))
    /\ p20_out = Ret(12)
    /\ p20_periods = [n \in {"f1", "f2", "f3"} |-> IF n = "f1" THEN 3 ELSE IF n = "f2" THEN 2 ELSE 4]
    /\ p20_first = [n \in {"f1", "f2", "f3"} |-> IF n = "f1" THEN 1 ELSE IF n = "f2" THEN 2 ELSE 4]

(***************************************************************************)
(* Day 5: whole intervals against single seeds.                            *)
(***************************************************************************)
\* Largest start of a seed interval and of the source of a rule.
MaxSource05 == 3

\* Largest length of a rule.
MaxLength05 == 2

\* Largest length of a seed interval.
MaxSeedLength05 == 3

\* line 122: the ranges part2 hands to get_min_location
SeedRanges(seeds) == [k \in DOMAIN seeds |-> <<seeds[k][1], seeds[k][1] + seeds[k][2] - 1>>]

\* The seeds of the intervals, interval after interval, in rising order.
RECURSIVE SeedsOf(_)
SeedsOf(seeds) ==
    IF seeds = <<>> THEN <<>>
    ELSE [k \in 1..Head(seeds)[2] |-> Head(seeds)[1] + k - 1] \o SeedsOf(Tail(seeds))

\* line 107: the ranges part1 hands to get_min_location
SingleRanges(values) == [k \in DOMAIN values |-> <<values[k], values[k]>>]

Rules05 ==
    {<<d, s, l>> : d \in {0, 10}, s \in 0..MaxSource05, l \in 1..MaxLength05}

\* The first map of a chain: up to two rules; the maps behind it.
FirstMaps05 == SeqsUpTo(Rules05, 2)

LaterMaps05 == {<<>>, << << <<20, 0, 2>>, <<0, 11, 3>> >> >>, << << <<5, 1, 12>> >> >>}

Chains05 == {<<>>} \cup {<<m>> \o later : m \in FirstMaps05, later \in LaterMaps05}

Intervals05 == {<<s, l>> : s \in 0..MaxSource05, l \in 0..MaxSeedLength05}

SeedLists05 ==
    {<<>>} \cup {<<i>> : i \in Intervals05}
    \cup {<<i, j>> : i \in {<<0, 0>>, <<2, 1>>}, j \in {<<0, 2>>, <<3, 0>>, <<1, 3>>}}

Start05r ==
    /\ r05_seeds \in SeedLists05
    /\ r05_maps \in Chains05
    /\ r05_out = [ranges |-> Pending, seeds |-> Pending]

\* lines 117-126: get_min_location on the intervals, as part2 calls it
MapIntervals ==
    /\ r05_out.ranges = Pending
    /\ LET r == get_min_location(SeedRanges(r05_seeds), parse_maps(r05_maps))
       IN r05_out' = [r05_out EXCEPT !.ranges = IF r.panic THEN Pan ELSE Ret(r.val)]
    /\ UNCHANGED <<r05_seeds, r05_maps>>

\* lines 103-111: get_min_location on every seed of the intervals, as part1
\* calls it
MapSingleSeeds ==
    /\ r05_out.seeds = Pending
    /\ LET r == get_min_location(SingleRanges(SeedsOf(r05_seeds)), parse_maps(r05_maps))
       IN r05_out' = [r05_out EXCEPT !.seeds = IF r.panic THEN Pan ELSE Ret(r.val)]
    /\ UNCHANGED <<r05_seeds, r05_maps>>

Init05r == Start05r /\ IdleAllBut({52})

Next05r ==
    \/ MapIntervals /\ UnchangedAllBut({52})
    \/ MapSingleSeeds /\ UnchangedAllBut({52})

Spec05r == Init05r /\ [][Next05r]_vars

\* ---- reference notions for the claim about day 5 part 2 ----
\* one seed through one map: the first rule whose source holds it moves it
ThroughMap(rules, v) ==
    LET hits == {k \in DOMAIN rules : rules[k][2] <= v /\ v < rules[k][2] + rules[k][3]}
    IN IF hits = {} THEN v
       ELSE LET k == CHOOSE k \in hits : \A j \in hits : k <= j
            IN v - rules[k][2] + rules[k][1]

RECURSIVE LocationOf(_, _)
LocationOf(maps, v) ==
    IF maps = <<>> THEN v ELSE LocationOf(Tail(maps), ThroughMap(Head(maps), v))

Locations05 ==
    LET all == SeedsOf(r05_seeds) IN {LocationOf(r05_maps, all[k]) : k \in DOMAIN all}

BothMapped == r05_out.ranges # Pending /\ r05_out.seeds # Pending

ProperIntervals == r05_seeds # <<>> /\ \A k \in DOMAIN r05_seeds : r05_seeds[k][2] >= 1

\* C15 (as stated): for every list of seed intervals, get_min_location on
\* the intervals returns the minimum get_min_location returns on the single
\* seeds of the intervals.
C15_IntervalsAsSingleSeeds ==
    (BothMapped /\ r05_out.seeds.st = "returned") => r05_out.ranges = r05_out.seeds

\* C15 (amended): for every non-empty list of seed intervals of length >= 1
\* and every chain of maps, get_min_location on the intervals returns the
\* least location of the seeds of the intervals, which is also what it
\* returns on the single seeds.
C15_ProperIntervalsAsSingleSeeds ==
    (BothMapped /\ ProperIntervals) =>
        /\ r05_out.ranges.st = "returned"
        /\ r05_out.ranges = r05_out.seeds
        /\ r05_out.ranges.val \in Locations05
        /\ \A l \in Locations05 : r05_out.ranges.val <= l

\* An interval of three seeds with a rule for the seed in the middle and a
\* rule that holds the last one: the least location comes from the last.
C15_Witness ==
    /\ BothMapped
    /\ r05_seeds = << <<1, 3>> >>
    /\ r05_maps = << << <<10, 2, 1>>, <<0, 3, 2>> >> >>
    /\ r05_out.ranges = Ret(0)

(***************************************************************************)
(* Day 12: arrangements of broken springs.                                 *)
(***************************************************************************)
\* Longest generated row, longest generated list of groups, largest
\* generated group size.
MaxRow12 == 4
MaxGroups12 == 2
MaxSize12 == 2

\* mutant: a broken spring right behind the group is not looked at
can_place_NoGap(row, pos, group_size, is_last) ==
    /\ \A k \in (pos + 1)..(pos + group_size) : row[k] # "."
    /\ (~is_last \/ \A k \in (pos + group_size + 1)..Len(row) : row[k] # "#")

\* lines 82-87; pos counts from 0 as in the code
can_place(row, pos, group_size, is_last) ==
    /\ \A k \in (pos + 1)..(pos + group_size) : row[k] # "."
    /\ (pos + group_size = Len(row) \/ row[pos + group_size + 1] # "#")
    /\ (~is_last \/ \A k \in (pos + group_size + 1)..Len(row) : row[k] # "#")

\* lines 92-96
AddWays(ways, new_max_pos, previous_ways) ==
    [p \in DOMAIN ways \cup {new_max_pos} |->
        IF p = new_max_pos
        THEN (IF p \in DOMAIN ways THEN ways[p] ELSE 0) + previous_ways
        ELSE ways[p]]

\* lines 80-104: the loop over pos, from `pos` on; Panic when row[pos] is
\* read behind the end of the row
RECURSIVE PositionsFrom(_, _, _, _, _, _)
PositionsFrom(row, group_size, is_last, previous_ways, pos, ways) ==
    IF pos > Len(row) - group_size THEN Ok(ways)
    ELSE LET placed == IF can_place(row, pos, group_size, is_last)
                       THEN AddWays(ways, pos + group_size + 1, previous_ways)
                       ELSE ways
         IN IF pos >= Len(row) THEN Panic
            ELSE IF row[pos + 1] = "#" THEN Ok(placed)
            ELSE PositionsFrom(row, group_size, is_last, previous_ways, pos + 1, placed)

\* lines 77-106: the inner fold over the entries of the previous map
RECURSIVE FoldWays(_, _, _, _, _, _)
FoldWays(row, group_size, is_last, previous, keys, ways) ==
    IF keys = {} THEN Ok(ways)
    ELSE LET previous_max_pos == CHOOSE p \in keys : TRUE
             next == PositionsFrom(row, group_size, is_last, previous[previous_max_pos],
                                   previous_max_pos, ways)
         IN IF next.panic THEN Panic
            ELSE FoldWays(row, group_size, is_last, previous,
                          keys \ {previous_max_pos}, next.val)

\* line 80: row.len() - group_size on usize fails for a group larger than
\* the row (overflow check, or the slice behind the end of the row)
GroupStep(row, constraints, group_index, previous) ==
    IF constraints[group_index] > Len(row) THEN Panic
    ELSE FoldWays(row, constraints[group_index], group_index = Len(constraints),
                  previous, DOMAIN previous, <<>>)

RECURSIVE SumOfValues(_, _)
SumOfValues(ways, keys) ==
    IF keys = {} THEN 0
    ELSE LET p == CHOOSE p \in keys : TRUE
         IN ways[p] + SumOfValues(ways, keys \ {p})

\* The rows of tests::test_example_input (lines 133-138) and of the other
\* tests, as (springs, constraints).
Examples12 ==
    { << <<"?","?","?",".","#","#","#">>, <<1, 1, 3>> >>,
      << <<".","?","?",".",".","?","?",".",".",".","?","#","#",".">>, <<1, 1, 3>> >>,
      << <<"?","#","?","#","?","#","?","#","?","#","?","#","?","#","?">>, <<1, 3, 1, 6>> >>,
      << <<"?","?","?","?",".","#",".",".",".","#",".",".",".">>, <<4, 1, 1>> >>,
      << <<"?","?","?","?",".","#","#","#","#","#","#",".",".","#","#","#","#","#",".">>, <<1, 6, 5>> >>,
      << <<"?","#","#","#","?","?","?","?","?","?","?","?">>, <<3, 2, 1>> >>,
      << <<"?","?",".","?","?">>, <<1, 1>> >>,
      << <<"?","?",".","?","?",".","?","?">>, <<1, 1>> >> }

Inputs12 ==
    Examples12
    \cup (SeqsUpTo({".", "#", "?"}, MaxRow12) \X SeqsUpTo(0..MaxSize12, MaxGroups12))

\* line 74: the fold starts from the map {0: 1}
Start12 ==
    /\ \E input \in Inputs12 :
        /\ d12_row = input[1]
        /\ d12_constraints = input[2]
    /\ d12_ways = [p \in {0} |-> 1]
    /\ d12_group = 0
    /\ d12_out = Pending

\* lines 74-107: one step of the outer fold, for the next group
FoldGroup ==
    /\ d12_out = Pending
    /\ d12_group < Len(d12_constraints)
    /\ LET next == GroupStep(d12_row, d12_constraints, d12_group + 1, d12_ways)
       IN IF next.panic
          THEN d12_out' = Pan /\ UNCHANGED d12_ways
          ELSE d12_ways' = next.val /\ UNCHANGED d12_out
    /\ d12_group' = d12_group + 1
    /\ UNCHANGED <<d12_row, d12_constraints>>

\* lines 108-110: the sum of the values of the last map
Return12 ==
    /\ d12_out = Pending
    /\ d12_group = Len(d12_constraints)
    /\ d12_out' = Ret(SumOfValues(d12_ways, DOMAIN d12_ways))
    /\ UNCHANGED <<d12_row, d12_constraints, d12_ways, d12_group>>

Init12 == Start12 /\ IdleAllBut({12})

Next12 ==
    \/ FoldGroup /\ UnchangedAllBut({12})
    \/ Return12 /\ UnchangedAllBut({12})

Spec12 == Init12 /\ [][Next12]_vars

\* ---- reference notions for the claim about day 12 ----
\* the lengths of the maximal runs of "#" of a row, left to right
RunStarts(row) ==
    {k \in DOMAIN row : row[k] = "#" /\ (k = 1 \/ row[k - 1] # "#")}

RunLength(row, start) ==
    Cardinality({k \in start..Len(row) : \A j \in start..k : row[j] = "#"})

RECURSIVE RunsOf(_, _)
RunsOf(row, starts) ==
    IF starts = {} THEN <<>>
    ELSE LET s == CHOOSE s \in starts : \A t \in starts : s <= t
         IN <<RunLength(row, s)>> \o RunsOf(row, starts \ {s})

Unknowns(row) == {k \in DOMAIN row : row[k] = "?"}

Replaced(row, choice) == [k \in DOMAIN row |-> IF row[k] = "?" THEN choice[k] ELSE row[k]]

Arrangements(row, constraints) ==
    {choice \in [Unknowns(row) -> {".", "#"}] :
        LET filled == Replaced(row, choice)
        IN RunsOf(filled, RunStarts(filled)) = constraints}

GroupsFitRow ==
    /\ d12_constraints # <<>>
    /\ \A k \in DOMAIN d12_constraints : d12_constraints[k] <= Len(d12_row)

PositiveGroups == \A k \in DOMAIN d12_constraints : d12_constraints[k] >= 1

Finished12 == d12_out # Pending

\* C16 (as stated): for every row and every non-empty list of group sizes
\* none larger than the row, solve_row returns the number of replacements
\* of the '?' whose runs of '#' have the listed sizes in the listed order.
C16_CountsArrangements ==
    (Finished12 /\ GroupsFitRow) =>
        d12_out = Ret(Cardinality(Arrangements(d12_row, d12_constraints)))

\* C16 (amended): the same for group sizes that are all at least 1.
C16_CountsArrangementsOfPositiveGroups ==
    (Finished12 /\ GroupsFitRow /\ PositiveGroups) =>
        /\ d12_out = Ret(Cardinality(Arrangements(d12_row, d12_constraints)))
        /\ (d12_row = <<"?","?",".","?","?">> /\ d12_constraints = <<1, 1>>) => d12_out.val = 4
        /\ (d12_row = <<"?","?","?","?">> /\ d12_constraints = <<1, 1>>) => d12_out.val = 3

\* solve_row has returned 3 for '???? 1,1'.
C16_Witness ==
    /\ d12_row = <<"?","?","?","?">>
    /\ d12_constraints = <<1, 1>>
    /\ d12_out = Ret(3)

(***************************************************************************)
(* Day 18: the area of the lagoon.                                         *)
(***************************************************************************)
\* lines 43-49: the direction and the orientation of a step
StepDirection(letter) ==
    IF letter = "R" THEN <<1, 0>>
    ELSE IF letter = "L" THEN <<-1, 0>>
    ELSE IF letter = "U" THEN <<0, -1>>
    ELSE <<0, 1>>

StepOrientation(letter) == IF letter \in {"R", "L"} THEN "Horizontal" ELSE "Vertical"

\* lines 87-91: the edge of a step that starts in pos
EdgeOf(pos, step) ==
    LET direction == StepDirection(step[1])
        end == <<pos[1] + direction[1] * step[2], pos[2] + direction[2] * step[2]>>
    IN [min |-> <<Min(pos[1], end[1]), Min(pos[2], end[2])>>,
        max |-> <<Max(pos[1], end[1]), Max(pos[2], end[2])>>,
        orientation |-> StepOrientation(step[1]),
        end |-> end]

\* map_has_edge
map_has_edge(map, from, to) ==
    \E k \in DOMAIN map :
        \/ map[k].min = from /\ map[k].max = to
        \/ map[k].min = to /\ map[k].max = from

\* sorted_by_key (stable): e goes behind the lines whose key is not larger
RECURSIVE InsertByKey(_, _)
InsertByKey(sorted, e) ==
    IF sorted = <<>> THEN <<e>>
    ELSE LET last == sorted[Len(sorted)]
         IN IF last.min[1] + last.max[1] <= e.min[1] + e.max[1]
            THEN Append(sorted, e)
            ELSE Append(InsertByKey(SubSeq(sorted, 1, Len(sorted) - 1), e), last)

RECURSIVE SortedByKey(_, _)
SortedByKey(edges, k) ==
    IF k = 0 THEN <<>> ELSE InsertByKey(SortedByKey(edges, k - 1), edges[k])

\* lines 118-125: the vertical lines that meet row y, left to right
LinesOfRow(map, y) ==
    LET meets == SelectSeq(map, LAMBDA e : e.orientation = "Vertical"
                                            /\ e.min[2] <= y /\ e.max[2] >= y)
    IN SortedByKey(meets, Len(meets))

\* lines 160-161: `a && b || c` groups as (a && b) || c
Flips(map, y, line, next) ==
    \/ /\ map_has_edge(map, <<line.min[1], y>>, <<next.min[1], y>>)
       /\ line.min[2] = y /\ next.max[2] = y
    \/ line.max[2] = y /\ next.min[2] = y

\* lines 142-170: the inner loop, from line_index (counted from 1) on;
\* Panic when lines[line_index + 1] lies behind the last line
RECURSIVE TraceSlice(_, _, _, _, _, _, _)
TraceSlice(map, y, lines, line_index, inside, slice_max_x, has_horizontal_edge) ==
    LET line == lines[line_index]
    IN IF line.min[2] # y /\ line.max[2] # y
       THEN IF inside \/ line_index + 1 > Len(lines)
            THEN Ok([line_index |-> line_index + 1, slice_max_x |-> line.max[1],
                     has_horizontal_edge |-> has_horizontal_edge])
            ELSE TraceSlice(map, y, lines, line_index + 1, TRUE, line.max[1],
                            has_horizontal_edge)
       ELSE IF line_index + 1 > Len(lines) THEN Panic
       ELSE LET next == lines[line_index + 1]
                now_inside == IF Flips(map, y, line, next) THEN ~inside ELSE inside
            IN IF ~now_inside \/ line_index + 2 > Len(lines)
               THEN Ok([line_index |-> line_index + 2, slice_max_x |-> next.max[1],
                        has_horizontal_edge |-> TRUE])
               ELSE TraceSlice(map, y, lines, line_index + 2, now_inside, next.max[1], TRUE)

\* lines 133-173: the loop over the slices of a row
RECURSIVE SlicesFrom(_, _, _, _, _, _)
SlicesFrom(map, y, lines, line_index, line_area, has_horizontal_edge) ==
    IF ~(line_index < Len(lines))
    THEN Ok([line_area |-> line_area, has_horizontal_edge |-> has_horizontal_edge])
    ELSE LET slice == TraceSlice(map, y, lines, line_index, FALSE,
                                 lines[line_index].min[1], has_horizontal_edge)
         IN IF slice.panic THEN Panic
            ELSE SlicesFrom(map, y, lines, slice.val.line_index,
                            line_area + 1 + slice.val.slice_max_x - lines[line_index].min[1],
                            slice.val.has_horizontal_edge)

\* lines 118-173: lines.len() - 1 fails on a row without a line
RowArea(map, y) ==
    LET lines == LinesOfRow(map, y)
    IN IF lines = <<>> THEN Panic ELSE SlicesFrom(map, y, lines, 1, 0, FALSE)

\* lines 183-188: the next row with an end of an edge, None without one
NextEndBelow(map, y) ==
    LET ends == {map[k].min[2] : k \in DOMAIN map} \cup {map[k].max[2] : k \in DOMAIN map}
        below == {e \in ends : e > y}
    IN IF below = {} THEN None ELSE Some(CHOOSE e \in below : \A f \in below : e <= f)

\* Longest generated plan, longest generated step, and the largest
\* coordinate a generated plan reaches (the smallest is -1).
MaxSteps18 == 8
MaxDistance18 == 3
MaxCoord18 == 3

\* The points a step passes after pos, in the order it passes them.
StepPoints(pos, step) ==
    LET direction == StepDirection(step[1])
    IN [n \in 1..step[2] |-> <<pos[1] + direction[1] * n, pos[2] + direction[2] * n>>]

InWindow18(p) == p[1] \in (0 - 1)..MaxCoord18 /\ p[2] \in (0 - 1)..MaxCoord18

\* The steps that may follow `plan`: the other orientation, inside the
\* window, no point passed twice (only the last step ends in the origin).
NextSteps18(plan, pos, visited) ==
    {step \in {"R", "L", "U", "D"} \X (1..MaxDistance18) :
        /\ plan # <<>> => StepOrientation(step[1]) # StepOrientation(plan[Len(plan)][1])
        /\ LET points == StepPoints(pos, step)
           IN /\ \A n \in DOMAIN points : InWindow18(points[n]) /\ points[n] \notin visited
              /\ \A n \in 1..(step[2] - 1) : points[n] # <<0, 0>>}

\* The closed loops without a point passed twice that extend `plan`.
RECURSIVE LoopsFrom(_, _, _)
LoopsFrom(plan, pos, visited) ==
    IF plan # <<>> /\ pos = <<0, 0>> THEN {plan}
    ELSE IF Len(plan) = MaxSteps18 THEN {}
    ELSE UNION {LoopsFrom(Append(plan, step), EdgeOf(pos, step).end,
                          visited \cup {StepPoints(pos, step)[n] : n \in 1..step[2]}) :
                step \in NextSteps18(plan, pos, visited)}

\* The plan of tests::test (lines 218-231), of test_box and of test_box2.
Example18 ==
    << <<"R", 6>>, <<"D", 5>>, <<"L", 2>>, <<"D", 2>>, <<"R", 2>>, <<"D", 2>>, <<"L", 5>>,
       <<"U", 2>>, <<"L", 1>>, <<"U", 2>>, <<"R", 2>>, <<"U", 3>>, <<"L", 2>>, <<"U", 2>> >>

Box18(n) == << <<"R", n>>, <<"D", n>>, <<"L", n>>, <<"U", n>> >>

Inputs18 == {Example18, Box18(1), Box18(2)} \cup LoopsFrom(<<>>, <<0, 0>>, {})

Start18 ==
    /\ d18_plan \in Inputs18
    /\ d18_k = 0
    /\ d18_pos = <<0, 0>>
    /\ d18_map = <<>>
    /\ d18_y = 0
    /\ d18_max_y = 0
    /\ d18_area = 0
    /\ d18_skips = <<>>
    /\ d18_pc = "build"
    /\ d18_out = Pending

\* lines 86-93: build_edges applies the next step of the plan
BuildEdge ==
    /\ d18_pc = "build"
    /\ d18_k < Len(d18_plan)
    /\ LET edge == EdgeOf(d18_pos, d18_plan[d18_k + 1])
       IN /\ d18_map' = Append(d18_map, [min |-> edge.min, max |-> edge.max,
                                         orientation |-> edge.orientation])
          /\ d18_pos' = edge.end
    /\ d18_k' = d18_k + 1
    /\ UNCHANGED <<d18_plan, d18_y, d18_max_y, d18_area, d18_skips, d18_pc, d18_out>>

\* lines 109-114: area begins with the first and the last row (the unwraps
\* fail on a map without an edge)
EnterArea ==
    /\ d18_pc = "build"
    /\ d18_k = Len(d18_plan)
    /\ IF d18_map = <<>>
       THEN /\ d18_out' = Pan
            /\ d18_pc' = "done"
            /\ UNCHANGED <<d18_y, d18_max_y>>
       ELSE /\ d18_y' = LargestOf({-d18_map[k].min[2] : k \in DOMAIN d18_map}) * (0 - 1)
            /\ d18_max_y' = LargestOf({d18_map[k].max[2] : k \in DOMAIN d18_map})
            /\ d18_pc' = "rows"
            /\ UNCHANGED d18_out
    /\ UNCHANGED <<d18_plan, d18_k, d18_pos, d18_map, d18_area, d18_skips>>

\* lines 116-193: one pass of `while y <= max_y`
AreaRow ==
    /\ d18_pc = "rows"
    /\ d18_y <= d18_max_y
    /\ LET row == RowArea(d18_map, d18_y)
           until == NextEndBelow(d18_map, d18_y)
       IN IF row.panic \/ (~row.val.has_horizontal_edge /\ until = None)
          THEN /\ d18_out' = Pan
               /\ d18_pc' = "done"
               /\ UNCHANGED <<d18_y, d18_area, d18_skips>>
          ELSE IF row.val.has_horizontal_edge
          THEN /\ d18_y' = d18_y + 1
               /\ d18_area' = d18_area + row.val.line_area
               /\ d18_skips' = Append(d18_skips, 1)
               /\ UNCHANGED <<d18_pc, d18_out>>
          ELSE /\ d18_area' = d18_area + row.val.line_area * (until[1] - d18_y)
               /\ d18_y' = until[1]
               /\ d18_skips' = Append(d18_skips, until[1] - d18_y)
               /\ UNCHANGED <<d18_pc, d18_out>>
    /\ UNCHANGED <<d18_plan, d18_k, d18_pos, d18_map, d18_max_y>>

\* line 195
Return18 ==
    /\ d18_pc = "rows"
    /\ d18_y > d18_max_y
    /\ d18_out' = Ret(d18_area)
    /\ d18_pc' = "done"
    /\ UNCHANGED <<d18_plan, d18_k, d18_pos, d18_map, d18_y, d18_max_y, d18_area, d18_skips>>

Init18 == Start18 /\ IdleAllBut({18})

Next18 ==
    \/ BuildEdge /\ UnchangedAllBut({18})
    \/ EnterArea /\ UnchangedAllBut({18})
    \/ AreaRow /\ UnchangedAllBut({18})
    \/ Return18 /\ UnchangedAllBut({18})

Spec18 == Init18 /\ [][Next18]_vars

\* ---- reference notions for the claim about day 18 ----
RECURSIVE TrenchFrom(_, _, _)
TrenchFrom(plan, k, pos) ==
    IF k > Len(plan) THEN {pos}
    ELSE {pos} \cup {StepPoints(pos, plan[k])[n] : n \in 1..plan[k][2]}
         \cup TrenchFrom(plan, k + 1, EdgeOf(pos, plan[k]).end)

Trench(plan) == TrenchFrom(plan, 1, <<0, 0>>)

\* the cells around the trench, one cell wider on every side
Box(trench) ==
    LET xs == {p[1] : p \in trench}
        ys == {p[2] : p \in trench}
    IN ((0 - LargestOf({-x : x \in xs}) - 1)..(LargestOf(xs) + 1))
       \X ((0 - LargestOf({-y : y \in ys}) - 1)..(LargestOf(ys) + 1))

Neighbours18(p) == {<<p[1] + 1, p[2]>>, <<p[1] - 1, p[2]>>, <<p[1], p[2] + 1>>, <<p[1], p[2] - 1>>}

\* the cells a fill from outside reaches, cell by cell
RECURSIVE Fill(_, _, _)
Fill(reached, frontier, free) ==
    LET new == (UNION {Neighbours18(p) : p \in frontier} \cap free) \ reached
    IN IF new = {} THEN reached ELSE Fill(reached \cup new, new, free)

\* the cells on the trench or enclosed by it
Lagoon(plan) ==
    LET trench == Trench(plan)
        box == Box(trench)
        corner == CHOOSE p \in box : \A q \in box : p[1] <= q[1] /\ p[2] <= q[2]
    IN Cardinality(box) - Cardinality(Fill({corner}, {corner}, box \ trench))

EndOfPlan(plan) ==
    LET RECURSIVE Walk(_, _)
        Walk(k, pos) == IF k > Len(plan) THEN pos ELSE Walk(k + 1, EdgeOf(pos, plan[k]).end)
    IN Walk(1, <<0, 0>>)

Alternating(plan) ==
    \A k \in 1..(Len(plan) - 1) : StepOrientation(plan[k][1]) # StepOrientation(plan[k + 1][1])

\* closed, and no cell dug twice but the first
ClosedSimpleLoop(plan) ==
    /\ plan # <<>>
    /\ EndOfPlan(plan) = <<0, 0>>
    /\ Cardinality(Trench(plan)) = SumSeq([k \in DOMAIN plan |-> plan[k][2]])

\* the plan begins in a corner of the loop
StartsInCorner(plan) == StepOrientation(plan[1][1]) # StepOrientation(plan[Len(plan)][1])

Finished18 == d18_pc = "done"

\* C17 (as stated): for every plan of alternating steps that draws a closed
\* loop without crossing itself, area(build_edges(plan)) is the number of
\* cells on the trench or enclosed by it.
C17_AreaCountsCells ==
    (Finished18 /\ ClosedSimpleLoop(d18_plan) /\ Alternating(d18_plan)) =>
        d18_out = Ret(Lagoon(d18_plan))

\* The rows a finished run has taken in passes of more than one row.
SkippedRows == {k \in DOMAIN d18_skips : d18_skips[k] > 1}

\* For the plans that begin in a corner of the loop (the first and the last
\* step differ in orientation) the area is the number of cells, also where
\* a pass of the loop over the rows takes several rows at once; 4 for the
\* 1-step square, 9 for the 2-step square, 62 for the example.
C17_AreaCountsCellsFromCorner ==
    (Finished18 /\ ClosedSimpleLoop(d18_plan) /\ Alternating(d18_plan)
        /\ StartsInCorner(d18_plan)) =>
        /\ d18_out = Ret(Lagoon(d18_plan))
        /\ d18_plan = Box18(1) => d18_out.val = 4
        /\ d18_plan = Box18(2) => d18_out.val = 9
        /\ d18_plan = Example18 => d18_out.val = 62

\* A loop of eight steps, begun in a corner, of which several rows are
\* taken in one pass.
C17_SkippedRowsCounted ==
    /\ Finished18
    /\ Len(d18_plan) = 8
    /\ StartsInCorner(d18_plan)
    /\ SkippedRows # {}
    /\ d18_out.st = "returned"
    /\ d18_out.val = Lagoon(d18_plan)

====
